---------------------------- MODULE Spec2Model ----------------------------
(***************************************************************************)
(* A model of lsst.amplifier_images: the ImageSectionTransform value type  *)
(* (python/lsst/amplifier_images/_image_section.py) and the ImageSection   *)
(* implementations (_box_only.py, _numpy.py, _afw.py).                     *)
(*                                                                         *)
(* Spec         a caller of the pure ImageSectionTransform operations.     *)
(* SectionSpec  a caller of the ImageSection operations over a pixel heap. *)
(* AmpSpec      a caller that constructs an amplifier and operates on it.  *)
(* SetSpec      a caller that constructs an amplifier set and performs a   *)
(*              sequence of set operations, each on the set returned by    *)
(*              the one before.                                            *)
(***************************************************************************)
EXTENDS Integers, Sequences, FiniteSets, TLC

\* Largest x and y pixel coordinate of the boxes the callers draw from.
MaxX == 1
MaxY == 1

VARIABLES
    op,       \* the operation the caller performed last ("idle" before any)
    ta,       \* transform call: self (for "construct": the raw arguments)
    tb,       \* transform call: other
    tc,       \* transform call: the third transform of a composition chain
    argbox,   \* transform call: the Box2I argument
    res,      \* transform call: the result (a value or an exception)
    res2,     \* transform call: the result of the second way of composing
    heap,     \* pixel buffers: the storage of arrays and images
    heap0,    \* the pixel buffers as they were before the section call
    sec,      \* section call: self, an ImageSection
    sop,      \* section call: the operation performed ("idle" before any)
    sargs,    \* section call: the arguments
    sres,     \* section call: the result (a value or an exception)
    ndarray_has_module,  \* whether numpy.ndarray instances expose __module__
    amplifier,  \* amplifier call: self (for a constructor: its arguments)
    aop,      \* amplifier call: the operation performed ("idle" before any)
    aallow,   \* amplifier call: the allow_view argument
    ares,     \* amplifier call: the result (an amplifier or an exception)
    abounds,  \* the results of the three boundary properties
    ares2,    \* amplifier call: the result of the second of two call chains
    zself,    \* set call: self (for a constructor: the set asked for)
    zop,      \* set call: the operation performed ("idle" before any)
    zallow,   \* set call: the allow_view argument
    zres,     \* set call: the result (a set or an exception)
    zn,       \* the number of set operations performed since construction
    zids,     \* the amplifier ids of the amplifiers given to the constructor
    zimage    \* set call: the image given to with_new_detector_image

tvars == <<op, ta, tb, tc, argbox, res, res2>>

svars == <<heap, heap0, sec, sop, sargs, sres, ndarray_has_module>>

avars == <<amplifier, aop, aallow, ares, abounds, ares2>>

zvars == <<zself, zop, zallow, zres, zn, zids, zimage>>

vars == <<op, ta, tb, tc, argbox, res, res2,
          heap, heap0, sec, sop, sargs, sres, ndarray_has_module,
          amplifier, aop, aallow, ares, abounds, ares2,
          zself, zop, zallow, zres, zn, zids, zimage>>

-----------------------------------------------------------------------------
(* lsst.geom: PointI, ExtentI, Box2I (integer boxes, inclusive corners).   *)

PointI(x, y) == [x |-> x, y |-> y]

ExtentI(x, y) == [x |-> x, y |-> y]

IMin(a, b) == IF a <= b THEN a ELSE b

IMax(a, b) == IF a >= b THEN a ELSE b

\* Box2I(minimum, maximum): invert=true swaps inverted corners per axis.
Box2I(minimum, maximum) ==
    [min |-> PointI(IMin(minimum.x, maximum.x), IMin(minimum.y, maximum.y)),
     max |-> PointI(IMax(minimum.x, maximum.x), IMax(minimum.y, maximum.y))]

getSize(b) == ExtentI(b.max.x - b.min.x + 1, b.max.y - b.min.y + 1)

getWidth(b) == b.max.x - b.min.x + 1

getHeight(b) == b.max.y - b.min.y + 1

\* The empty box, as lsst.geom represents it.
EmptyBox == [min |-> PointI(0, 0), max |-> PointI(0 - 1, 0 - 1)]

isEmpty(b) == b.max.x < b.min.x \/ b.max.y < b.min.y

\* Box2I(corner, dimensions) for dimensions >= 0 (array shapes).
Box2IFromExtent(corner, dimensions) ==
    IF dimensions.x = 0 \/ dimensions.y = 0
    THEN EmptyBox
    ELSE [min |-> corner,
          max |-> PointI(corner.x + dimensions.x - 1, corner.y + dimensions.y - 1)]

contains(outer, inner) ==
    \/ isEmpty(inner)
    \/ /\ outer.min.x <= inner.min.x /\ inner.max.x <= outer.max.x
       /\ outer.min.y <= inner.min.y /\ inner.max.y <= outer.max.y

\* Point - Point -> Extent, Point + Extent -> Point, Point - Extent -> Point.
PointDiff(p, q) == ExtentI(p.x - q.x, p.y - q.y)

PointPlus(p, e) == PointI(p.x + e.x, p.y + e.y)

PointMinus(p, e) == PointI(p.x - e.x, p.y - e.y)

\* The non-empty boxes within the coordinate bounds.
Boxes ==
    {Box2I(PointI(x0, y0), PointI(x1, y1)) :
        x0 \in 0..MaxX, x1 \in 0..MaxX, y0 \in 0..MaxY, y1 \in 0..MaxY}

-----------------------------------------------------------------------------
(* Results of calls: a value, or the exception the call raised.            *)

Ok(v) == [exc |-> "none", val |-> v]

Raise(e, placeholder) == [exc |-> e, val |-> placeholder]

NoBox == Box2I(PointI(0, 0), PointI(0, 0))

NoTransform ==
    [input_bbox |-> NoBox, output_bbox |-> NoBox, flip_x |-> FALSE, flip_y |-> FALSE]

-----------------------------------------------------------------------------
(* ImageSectionTransform                                                   *)

\* A plausible bug: the dataclass without its __post_init__ size check.
ImageSectionTransformUnchecked(input_bbox, output_bbox, flip_x, flip_y) ==
    Ok([input_bbox |-> input_bbox, output_bbox |-> output_bbox,
        flip_x |-> flip_x, flip_y |-> flip_y])

\* The dataclass constructor, __post_init__ included.
ImageSectionTransform(input_bbox, output_bbox, flip_x, flip_y) ==
    IF getSize(input_bbox) # getSize(output_bbox)
    THEN Raise("ValueError", NoTransform)
    ELSE Ok([input_bbox |-> input_bbox, output_bbox |-> output_bbox,
             flip_x |-> flip_x, flip_y |-> flip_y])

make_identity(bbox) == ImageSectionTransform(bbox, bbox, FALSE, FALSE)

is_identity(t) ==
    ~(t.flip_x \/ t.flip_y) /\ t.input_bbox = t.output_bbox

\* A plausible bug: the composition keeps only self's flips.
afterKeepingOwnFlips(self, other) ==
    ImageSectionTransform(other.input_bbox, self.output_bbox,
                          self.flip_x, self.flip_y)

\* A plausible bug: the flips are or-ed instead of xor-ed.
afterOrFlips(self, other) ==
    ImageSectionTransform(other.input_bbox, self.output_bbox,
                          self.flip_x \/ other.flip_x,
                          self.flip_y \/ other.flip_y)

after(self, other) ==
    ImageSectionTransform(other.input_bbox, self.output_bbox,
                          self.flip_x # other.flip_x,
                          self.flip_y # other.flip_y)

\* A plausible bug: the flips are not passed on to the restricted transform.
for_subimageDroppingFlips(self, bbox) ==
    LET lower == PointDiff(bbox.min, self.input_bbox.min)
        upper == PointDiff(self.input_bbox.max, bbox.max)
        lx == IF self.flip_x THEN upper.x ELSE lower.x
        ux == IF self.flip_x THEN lower.x ELSE upper.x
        ly == IF self.flip_y THEN upper.y ELSE lower.y
        uy == IF self.flip_y THEN lower.y ELSE upper.y
    IN  ImageSectionTransform(
            bbox,
            Box2I(PointPlus(self.output_bbox.min, ExtentI(lx, ly)),
                  PointMinus(self.output_bbox.max, ExtentI(ux, uy))),
            FALSE, FALSE)

\* A plausible bug: the edge distances are not swapped on a flipped axis.
for_subimageWithoutSwap(self, bbox) ==
    LET lower == PointDiff(bbox.min, self.input_bbox.min)
        upper == PointDiff(self.input_bbox.max, bbox.max)
    IN  ImageSectionTransform(
            bbox,
            Box2I(PointPlus(self.output_bbox.min, ExtentI(lower.x, lower.y)),
                  PointMinus(self.output_bbox.max, ExtentI(upper.x, upper.y))),
            self.flip_x, self.flip_y)

for_subimage(self, bbox) ==
    LET lower == PointDiff(bbox.min, self.input_bbox.min)
        upper == PointDiff(self.input_bbox.max, bbox.max)
        lower_dist_x == IF self.flip_x THEN upper.x ELSE lower.x
        upper_dist_x == IF self.flip_x THEN lower.x ELSE upper.x
        lower_dist_y == IF self.flip_y THEN upper.y ELSE lower.y
        upper_dist_y == IF self.flip_y THEN lower.y ELSE upper.y
    IN  ImageSectionTransform(
            bbox,
            Box2I(PointPlus(self.output_bbox.min,
                            ExtentI(lower_dist_x, lower_dist_y)),
                  PointMinus(self.output_bbox.max,
                             ExtentI(upper_dist_x, upper_dist_y))),
            self.flip_x, self.flip_y)

\* A call on the result of a call: an exception in the first propagates.
afterResult(r, other) ==
    IF r.exc # "none" THEN r ELSE after(r.val, other)

\* ImageSectionTransform instances that exist: the constructor accepted them.
Transforms ==
    {t \in [input_bbox : Boxes, output_bbox : Boxes,
            flip_x : BOOLEAN, flip_y : BOOLEAN] :
        getSize(t.input_bbox) = getSize(t.output_bbox)}

\* The instances that end with the given box.
TransformsInto(bbox) ==
    {[input_bbox |-> i, output_bbox |-> bbox, flip_x |-> fx, flip_y |-> fy] :
        i \in {b \in Boxes : getSize(b) = getSize(bbox)},
        fx \in BOOLEAN, fy \in BOOLEAN}

-----------------------------------------------------------------------------
(* Pixel storage.  A buffer is a row-major block of pixels; an array (a    *)
(* numpy.ndarray, or the pixels of an lsst.afw.image object) is a strided  *)
(* window on a buffer: element (i, j), column i of row j, is the buffer    *)
(* cell (x0 + sx*i, y0 + sy*j), with strides sx, sy of +1 or -1.           *)

Buffer(w, h, px) == [w |-> w, h |-> h, px |-> px]

Array(buf, x0, y0, w, h, sx, sy) ==
    [buf |-> buf, x0 |-> x0, y0 |-> y0, w |-> w, h |-> h, sx |-> sx, sy |-> sy]

NoArray == Array(0, 0, 0, 0, 0, 1, 1)

\* The cell of buffer a.buf that element (i, j) of array a is.
CellIndex(h, a, i, j) ==
    (a.x0 + a.sx * i) + h[a.buf].w * (a.y0 + a.sy * j) + 1

ReadPixel(h, a, i, j) == h[a.buf].px[CellIndex(h, a, i, j)]

\* The pixel values read through an array, by row and column.
Pixels(h, a) ==
    [j \in 0..(a.h - 1) |-> [i \in 0..(a.w - 1) |-> ReadPixel(h, a, i, j)]]

\* The buffer cells an array covers.
Cells(h, a) ==
    {<<a.buf, CellIndex(h, a, i, j)>> : i \in 0..(a.w - 1), j \in 0..(a.h - 1)}

\* The element indices (i, j) = (column, row) of an array of shape (ht, w).
Grid(w, ht) == (0..(w - 1)) \X (0..(ht - 1))

\* A new buffer of shape (h, w) whose element (i, j) is F(i, j).
Allocate(h, w, ht, values) ==
    LET px == [k \in 1..(w * ht) |-> values[<<(k - 1) % w, (k - 1) \div w>>]]
    IN  [heap |-> Append(h, Buffer(w, ht, px)),
         arr |-> Array(Len(h) + 1, 0, 0, w, ht, 1, 1)]

\* target[...] = F: every element (i, j) of the array target is set to F(i, j).
Store(h, target, values) ==
    IF target.w = 0 \/ target.h = 0
    THEN h
    ELSE LET bw == h[target.buf].w
             I(k) == target.sx * (((k - 1) % bw) - target.x0)
             J(k) == target.sy * (((k - 1) \div bw) - target.y0)
             Covered(k) == /\ 0 <= I(k) /\ I(k) < target.w
                           /\ 0 <= J(k) /\ J(k) < target.h
         IN  [h EXCEPT ![target.buf].px =
                 [k \in DOMAIN h[target.buf].px |->
                     IF Covered(k) THEN values[<<I(k), J(k)>>]
                                   ELSE h[target.buf].px[k]]]

\* numpy: array.copy()
np_copy(h, a) ==
    LET F(i, j) == ReadPixel(h, a, i, j)
    IN  Allocate(h, a.w, a.h, [p \in Grid(a.w, a.h) |-> F(p[1], p[2])])

\* numpy: np.zeros_like(array)
np_zeros_like(h, a) ==
    LET F(i, j) == 0
    IN  Allocate(h, a.w, a.h, [p \in Grid(a.w, a.h) |-> F(p[1], p[2])])

\* Python: the index a slice bound i stands for in a sequence of length n.
SliceIndex(i, n) ==
    LET k == IF i < 0 THEN i + n ELSE i
    IN  IF k < 0 THEN 0 ELSE IF k > n THEN n ELSE k

\* numpy: array[ystart:ystop, xstart:xstop, ...], a view.
np_slice(a, ystart, ystop, xstart, xstop) ==
    LET xb == SliceIndex(xstart, a.w)
        xe == SliceIndex(xstop, a.w)
        yb == SliceIndex(ystart, a.h)
        ye == SliceIndex(ystop, a.h)
    IN  Array(a.buf, a.x0 + a.sx * xb, a.y0 + a.sy * yb,
              IF xe > xb THEN xe - xb ELSE 0,
              IF ye > yb THEN ye - yb ELSE 0,
              a.sx, a.sy)

\* numpy: array[::-1 if flip_y else 1, ::-1 if flip_x else 1], a view.
np_reverse(a, flip_y, flip_x) ==
    Array(a.buf,
          IF flip_x /\ a.w > 0 THEN a.x0 + a.sx * (a.w - 1) ELSE a.x0,
          IF flip_y /\ a.h > 0 THEN a.y0 + a.sy * (a.h - 1) ELSE a.y0,
          a.w, a.h,
          IF flip_x THEN 0 - a.sx ELSE a.sx,
          IF flip_y THEN 0 - a.sy ELSE a.sy)

\* numpy: whether target[...] = source broadcasts (shape (h, w) each).
np_broadcasts(source, target) ==
    /\ source.w = target.w \/ source.w = 1
    /\ source.h = target.h \/ source.h = 1

\* numpy: target[...] = source, with source read before anything is written.
np_assign(h, target, source) ==
    LET F(i, j) == ReadPixel(h, source,
                             IF source.w = 1 THEN 0 ELSE i,
                             IF source.h = 1 THEN 0 ELSE j)
    IN  Store(h, target, [p \in Grid(target.w, target.h) |-> F(p[1], p[2])])

-----------------------------------------------------------------------------
(* ImageSection values.  kind is the implementing class; arr the pixels    *)
(* (NumPyImageSection._array, or those of AfwImageSection._image); pos the *)
(* stored position: NumPyImageSection._bbox_min as it was passed in (a     *)
(* PointI, or whatever else the caller gave), the XY0 of an afw image, or  *)
(* BoxOnlyImageSection._bbox.                                              *)

PosPoint(p) == [type |-> "PointI", min |-> p, max |-> p]

PosBox(b) == [type |-> "Box2I", min |-> b.min, max |-> b.max]

Section(kind, arr, pos) == [kind |-> kind, arr |-> arr, pos |-> pos]

NoSection == Section("none", NoArray, PosPoint(PointI(0, 0)))

\* The outcome of an ImageSection call: the exception raised ("none" when it
\* returned), the section returned, and the pixel buffers afterwards.
Returns(h, v) == [exc |-> "none", val |-> v, heap |-> h]

Raises(e, h) == [exc |-> e, val |-> NoSection, heap |-> h]

\* Python values passed as an image: None, a numpy.ndarray, an lsst.afw.image
\* object (pixels arr, origin xy0), an instance of some other Python class
\* ("object"), or an instance of a built-in type ("int").
Payload(pytype, arr, xy0) == [pytype |-> pytype, arr |-> arr, xy0 |-> xy0]

NonePayload == Payload("NoneType", NoArray, PointI(0, 0))

BoxOnlyImageSection(bbox) == Section("box", NoArray, PosBox(bbox))

NumPyImageSection(array, bbox_min) == Section("numpy", array, bbox_min)

AfwImageSection(image) == Section("afw", image.arr, PosPoint(image.xy0))

(* bbox *)

BoxOnly_bbox(self) == Ok([min |-> self.pos.min, max |-> self.pos.max])

\* Box2I(self._bbox_min, ExtentI(shape[1], shape[0])): lsst.geom has no
\* Box2I(Box2I, ExtentI) overload, so a _bbox_min that is a box is a TypeError.
NumPy_bbox(self) ==
    IF self.pos.type = "PointI"
    THEN Ok(Box2IFromExtent(self.pos.min, ExtentI(self.arr.w, self.arr.h)))
    ELSE Raise("TypeError", NoBox)

Afw_bbox(self) ==
    Ok(Box2IFromExtent(self.pos.min, ExtentI(self.arr.w, self.arr.h)))

ImageSection_bbox(self) ==
    CASE self.kind = "box" -> BoxOnly_bbox(self)
      [] self.kind = "numpy" -> NumPy_bbox(self)
      [] OTHER -> Afw_bbox(self)

(* image *)

ImageSection_image(self) ==
    CASE self.kind = "box" -> NonePayload
      [] self.kind = "numpy" -> Payload("ndarray", self.arr, PointI(0, 0))
      [] OTHER -> Payload("afw", self.arr, self.pos.min)

(* copy *)

BoxOnly_copy(h, self) == Returns(h, self)

NumPy_copy(h, self) ==
    LET c == np_copy(h, self.arr)
    IN  Returns(c.heap, NumPyImageSection(c.arr, self.pos))

\* type(self._image)(self._image, deep=True)
Afw_copy(h, self) ==
    LET c == np_copy(h, self.arr)
    IN  Returns(c.heap, AfwImageSection(Payload("afw", c.arr, self.pos.min)))

ImageSection_copy(h, self) ==
    CASE self.kind = "box" -> BoxOnly_copy(h, self)
      [] self.kind = "numpy" -> NumPy_copy(h, self)
      [] OTHER -> Afw_copy(h, self)

(* make_empty *)

BoxOnly_make_empty(h, self, bbox) == Returns(h, BoxOnlyImageSection(bbox))

\* NumPyImageSection(np.zeros_like(self._array), self._bbox_min)
NumPy_make_empty(h, self, bbox) ==
    LET z == np_zeros_like(h, self.arr)
    IN  Returns(z.heap, NumPyImageSection(z.arr, self.pos))

\* type(self._image)(bbox=bbox): a new image of zeros
Afw_make_empty(h, self, bbox) ==
    LET F(i, j) == 0
        z == Allocate(h, getWidth(bbox), getHeight(bbox),
                      [p \in Grid(getWidth(bbox), getHeight(bbox)) |-> F(p[1], p[2])])
    IN  Returns(z.heap, AfwImageSection(Payload("afw", z.arr, bbox.min)))

ImageSection_make_empty(h, self, bbox) ==
    CASE self.kind = "box" -> BoxOnly_make_empty(h, self, bbox)
      [] self.kind = "numpy" -> NumPy_make_empty(h, self, bbox)
      [] OTHER -> Afw_make_empty(h, self, bbox)

(* subimage *)

BoxOnly_subimage(h, self, bbox) ==
    IF ~contains(BoxOnly_bbox(self).val, bbox)
    THEN Raises("AssertionError", h)
    ELSE Returns(h, BoxOnlyImageSection(bbox))

\* start = bbox.getMin() - self._bbox_min; stop = start + bbox.getSize();
\* NumPyImageSection(self._array[start.y:stop.y, start.x:stop.x, ...], bbox)
NumPy_subimage(h, self, bbox) ==
    IF self.pos.type # "PointI"
    THEN Raises("TypeError", h)
    ELSE LET start == PointDiff(bbox.min, self.pos.min)
             stop == ExtentI(start.x + getWidth(bbox), start.y + getHeight(bbox))
         IN  Returns(h, NumPyImageSection(
                 np_slice(self.arr, start.y, stop.y, start.x, stop.x),
                 PosBox(bbox)))

\* type(self._image)(self._image, bbox=bbox): a view in parent coordinates;
\* lsst.afw.image raises LengthError for a box that does not fit.
Afw_subimage(h, self, bbox) ==
    IF ~contains(Afw_bbox(self).val, bbox)
    THEN Raises("LengthError", h)
    ELSE Returns(h, AfwImageSection(Payload("afw",
             Array(self.arr.buf,
                   self.arr.x0 + (bbox.min.x - self.pos.min.x),
                   self.arr.y0 + (bbox.min.y - self.pos.min.y),
                   getWidth(bbox), getHeight(bbox), 1, 1),
             bbox.min)))

ImageSection_subimage(h, self, bbox) ==
    CASE self.kind = "box" -> BoxOnly_subimage(h, self, bbox)
      [] self.kind = "numpy" -> NumPy_subimage(h, self, bbox)
      [] OTHER -> Afw_subimage(h, self, bbox)

(* assign *)

BoxOnly_assign(h, self, other) ==
    LET ob == ImageSection_bbox(other)
    IN  IF ob.exc # "none" THEN Raises(ob.exc, h)
        ELSE IF ~contains(BoxOnly_bbox(self).val, ob.val)
        THEN Raises("AssertionError", h)
        ELSE Returns(h, NoSection)

\* self.subimage(other.bbox).image[...] = other.image
NumPy_assign(h, self, other) ==
    LET ob == ImageSection_bbox(other)
    IN  IF ob.exc # "none" THEN Raises(ob.exc, h)
        ELSE LET sub == NumPy_subimage(h, self, ob.val)
             IN  IF sub.exc # "none" THEN Raises(sub.exc, h)
                 ELSE IF other.kind # "numpy" THEN Raises("TypeError", h)
                 ELSE IF ~np_broadcasts(other.arr, sub.val.arr)
                 THEN Raises("ValueError", h)
                 ELSE Returns(np_assign(h, sub.val.arr, other.arr), NoSection)

\* self._image.assign(other.image, bbox=other.bbox): lsst.afw.image raises
\* LengthError when the box does not fit in self or the sizes differ.
Afw_assign(h, self, other) ==
    LET ob == ImageSection_bbox(other)
    IN  IF ob.exc # "none" THEN Raises(ob.exc, h)
        ELSE IF other.kind # "afw" THEN Raises("TypeError", h)
        ELSE LET sub == Afw_subimage(h, self, ob.val)
             IN  IF sub.exc # "none" THEN Raises(sub.exc, h)
                 ELSE Returns(np_assign(h, sub.val.arr, other.arr), NoSection)

ImageSection_assign(h, self, other) ==
    CASE self.kind = "box" -> BoxOnly_assign(h, self, other)
      [] self.kind = "numpy" -> NumPy_assign(h, self, other)
      [] OTHER -> Afw_assign(h, self, other)

(* apply_transform *)

BoxOnly_apply_transform(h, self, transform, allow_view) ==
    IF transform.input_bbox # BoxOnly_bbox(self).val
    THEN Raises("AssertionError", h)
    ELSE Returns(h, BoxOnlyImageSection(transform.output_bbox))

\* A plausible bug: the flipped array is copied whatever allow_view says.
NumPy_apply_transformAlwaysCopying(h, self, transform, allow_view) ==
    LET c == np_copy(h, np_reverse(self.arr, transform.flip_y, transform.flip_x))
    IN  Returns(c.heap,
                NumPyImageSection(c.arr, PosPoint(transform.output_bbox.min)))

\* array = self._array[::-1 if flip_y else 1, ::-1 if flip_x else 1]
\* if not allow_view: array = array.copy()
NumPy_apply_transform(h, self, transform, allow_view) ==
    LET array == np_reverse(self.arr, transform.flip_y, transform.flip_x)
        c == np_copy(h, array)
    IN  IF ~allow_view
        THEN Returns(c.heap,
                     NumPyImageSection(c.arr, PosPoint(transform.output_bbox.min)))
        ELSE Returns(h,
                     NumPyImageSection(array, PosPoint(transform.output_bbox.min)))

\* lsst.afw.math.flipImage(image, flipLR, flipTB): a new, flipped image.
flipImage(h, a, flipLR, flipTB) ==
    LET F(i, j) == ReadPixel(h, a,
                             IF flipLR THEN a.w - 1 - i ELSE i,
                             IF flipTB THEN a.h - 1 - j ELSE j)
    IN  Allocate(h, a.w, a.h, [p \in Grid(a.w, a.h) |-> F(p[1], p[2])])

\* no flip: type(self._image)(self._image, deep=not allow_view)
\* a flip:  flipImage(self._image, transform.flip_x, transform.flip_y)
\* then image.setXY0(transform.output_bbox.getMin())
Afw_apply_transform(h, self, transform, allow_view) ==
    LET deep == np_copy(h, self.arr)
        flipped == flipImage(h, self.arr, transform.flip_x, transform.flip_y)
        xy0 == transform.output_bbox.min
    IN  IF ~(transform.flip_x \/ transform.flip_y)
        THEN IF ~allow_view
             THEN Returns(deep.heap, AfwImageSection(Payload("afw", deep.arr, xy0)))
             ELSE Returns(h, AfwImageSection(Payload("afw", self.arr, xy0)))
        ELSE Returns(flipped.heap,
                     AfwImageSection(Payload("afw", flipped.arr, xy0)))

ImageSection_apply_transform(h, self, transform, allow_view) ==
    CASE self.kind = "box" -> BoxOnly_apply_transform(h, self, transform, allow_view)
      [] self.kind = "numpy" -> NumPy_apply_transform(h, self, transform, allow_view)
      [] OTHER -> Afw_apply_transform(h, self, transform, allow_view)

(* without_image, with_new_image *)

without_image(h, self) ==
    LET b == ImageSection_bbox(self)
    IN  IF b.exc # "none" THEN Raises(b.exc, h)
        ELSE Returns(h, BoxOnlyImageSection(b.val))

\* Python: whether image.__module__ can be read.  Instances of classes defined
\* in Python or by pybind11 (lsst.afw.image) find it in their class; instances
\* of built-in types do not (AttributeError); for numpy.ndarray it depends on
\* the numpy build.
hasattr_module(image) ==
    CASE image.pytype = "afw" -> TRUE
      [] image.pytype = "object" -> TRUE
      [] image.pytype = "ndarray" -> ndarray_has_module
      [] OTHER -> FALSE

with_new_image(h, self, image) ==
    IF image.pytype = "NoneType"
    THEN without_image(h, self)
    ELSE IF ~hasattr_module(image)
    THEN Raises("AttributeError", h)
    ELSE IF image.pytype = "afw"
    THEN LET b == ImageSection_bbox(self)
             imgbox == Box2IFromExtent(image.xy0, ExtentI(image.arr.w, image.arr.h))
         IN  IF b.exc # "none" THEN Raises(b.exc, h)
             ELSE IF b.val # imgbox THEN Raises("ValueError", h)
             ELSE Returns(h, AfwImageSection(image))
    ELSE IF image.pytype = "ndarray"
    THEN LET b == ImageSection_bbox(self)
         IN  IF b.exc # "none" THEN Raises(b.exc, h)
             ELSE IF getHeight(b.val) # image.arr.h \/ getWidth(b.val) # image.arr.w
             THEN Raises("ValueError", h)
             ELSE Returns(h, NumPyImageSection(image.arr, PosPoint(b.val.min)))
    ELSE Raises("TypeError", h)

-----------------------------------------------------------------------------
(* Amplifiers.  One record shape serves both classes: cls is the class,    *)
(* sect is TrimmedAmplifier._data or UntrimmedAmplifier._full, and the     *)
(* fields the class does not have hold placeholders.  The keyword-only     *)
(* arguments of the constructors are passed as a record, kw.               *)

NoAmplifier ==
    [cls |-> "none", sect |-> NoSection, amplifier_id |-> 0,
     readout_transform |-> NoTransform,
     horizontal_overscan_is_at_min |-> FALSE,
     vertical_overscan_is_at_min |-> FALSE,
     horizontal_prescan_is_at_min |-> FALSE,
     physical_transform |-> NoTransform,
     data_bbox |-> NoBox, data_physical_bbox |-> NoBox,
     horizontal_overscan_bbox |-> NoBox, vertical_overscan_bbox |-> NoBox,
     horizontal_prescan_bbox |-> NoBox,
     raw_detector_transform |-> NoTransform]

\* The outcome of an Amplifier call: the exception raised ("none" when it
\* returned), the amplifier returned, and the pixel buffers afterwards.
AReturns(h, amp) == [exc |-> "none", val |-> amp, heap |-> h]

ARaises(e, h) == [exc |-> e, val |-> NoAmplifier, heap |-> h]

\* Python evaluates the arguments of a call in order: the first exception
\* among their evaluations, "none" when all of them returned.
FirstException(excs) ==
    IF \A k \in 1..Len(excs) : excs[k] = "none"
    THEN "none"
    ELSE excs[CHOOSE k \in 1..Len(excs) :
                  /\ excs[k] # "none"
                  /\ \A m \in 1..(k - 1) : excs[m] = "none"]

\* TrimmedAmplifier.__init__: two assertions on data.bbox, then the fields.
TrimmedAmplifier(h, data, kw) ==
    LET b == ImageSection_bbox(data)
    IN  IF b.exc # "none" THEN ARaises(b.exc, h)
        ELSE IF kw.readout_transform.input_bbox # b.val
        THEN ARaises("AssertionError", h)
        ELSE IF kw.physical_transform.input_bbox # b.val
        THEN ARaises("AssertionError", h)
        ELSE AReturns(h,
                 [NoAmplifier EXCEPT
                     !.cls = "TrimmedAmplifier",
                     !.sect = data,
                     !.amplifier_id = kw.amplifier_id,
                     !.readout_transform = kw.readout_transform,
                     !.horizontal_overscan_is_at_min =
                         kw.horizontal_overscan_is_at_min,
                     !.vertical_overscan_is_at_min =
                         kw.vertical_overscan_is_at_min,
                     !.horizontal_prescan_is_at_min =
                         kw.horizontal_prescan_is_at_min,
                     !.physical_transform = kw.physical_transform])

\* UntrimmedAmplifier.__init__: three assertions on full.bbox, then the fields.
UntrimmedAmplifier(h, full, kw) ==
    LET b == ImageSection_bbox(full)
    IN  IF b.exc # "none" THEN ARaises(b.exc, h)
        ELSE IF kw.readout_transform.input_bbox # b.val
        THEN ARaises("AssertionError", h)
        ELSE IF kw.raw_detector_transform.input_bbox # b.val
        THEN ARaises("AssertionError", h)
        ELSE IF ~contains(b.val, kw.data_bbox)
        THEN ARaises("AssertionError", h)
        ELSE AReturns(h,
                 [NoAmplifier EXCEPT
                     !.cls = "UntrimmedAmplifier",
                     !.sect = full,
                     !.amplifier_id = kw.amplifier_id,
                     !.readout_transform = kw.readout_transform,
                     !.data_bbox = kw.data_bbox,
                     !.data_physical_bbox = kw.data_physical_bbox,
                     !.horizontal_overscan_bbox = kw.horizontal_overscan_bbox,
                     !.vertical_overscan_bbox = kw.vertical_overscan_bbox,
                     !.horizontal_prescan_bbox = kw.horizontal_prescan_bbox,
                     !.raw_detector_transform = kw.raw_detector_transform])

\* The keyword arguments a TrimmedAmplifier was made with.
TrimmedKw(self) ==
    [amplifier_id |-> self.amplifier_id,
     readout_transform |-> self.readout_transform,
     horizontal_overscan_is_at_min |-> self.horizontal_overscan_is_at_min,
     vertical_overscan_is_at_min |-> self.vertical_overscan_is_at_min,
     horizontal_prescan_is_at_min |-> self.horizontal_prescan_is_at_min,
     physical_transform |-> self.physical_transform]

\* The keyword arguments an UntrimmedAmplifier was made with.
UntrimmedKw(self) ==
    [amplifier_id |-> self.amplifier_id,
     readout_transform |-> self.readout_transform,
     data_bbox |-> self.data_bbox,
     data_physical_bbox |-> self.data_physical_bbox,
     horizontal_overscan_bbox |-> self.horizontal_overscan_bbox,
     vertical_overscan_bbox |-> self.vertical_overscan_bbox,
     horizontal_prescan_bbox |-> self.horizontal_prescan_bbox,
     raw_detector_transform |-> self.raw_detector_transform]

\* ImageSectionTransform(*args): the generated __init__ requires input_bbox
\* and output_bbox; a call that leaves one out is a TypeError.
ImageSectionTransformCall(args) ==
    IF Len(args) < 2
    THEN Raise("TypeError", NoTransform)
    ELSE ImageSectionTransform(args[1], args[2], FALSE, FALSE)

(* TrimmedAmplifier *)

Trimmed_copy(h, self) ==
    LET c == ImageSection_copy(h, self.sect)
    IN  IF c.exc # "none" THEN ARaises(c.exc, c.heap)
        ELSE TrimmedAmplifier(c.heap, c.val, TrimmedKw(self))

Trimmed_without_images(h, self) ==
    IF ImageSection_image(self.sect).pytype = "NoneType"
    THEN AReturns(h, self)
    ELSE LET w == without_image(h, self.sect)
         IN  IF w.exc # "none" THEN ARaises(w.exc, w.heap)
             ELSE TrimmedAmplifier(w.heap, w.val, TrimmedKw(self))

\* readout_transform=ImageSectionTransform(new_data.bbox): one argument only.
Trimmed_into_readout_coordinates(h, self, allow_view) ==
    LET new_data == ImageSection_apply_transform(h, self.sect,
                        self.readout_transform, allow_view)
        nb == ImageSection_bbox(new_data.val)
        rt == ImageSectionTransformCall(<<nb.val>>)
        pt == after(self.physical_transform, self.readout_transform)
        exc == FirstException(<<new_data.exc, nb.exc, rt.exc, pt.exc>>)
    IN  IF exc # "none" THEN ARaises(exc, new_data.heap)
        ELSE TrimmedAmplifier(new_data.heap, new_data.val,
                 [amplifier_id |-> self.amplifier_id,
                  readout_transform |-> rt.val,
                  horizontal_overscan_is_at_min |->
                      (self.horizontal_overscan_is_at_min
                           # self.readout_transform.flip_x),
                  vertical_overscan_is_at_min |->
                      (self.vertical_overscan_is_at_min
                           # self.readout_transform.flip_y),
                  horizontal_prescan_is_at_min |->
                      (self.horizontal_prescan_is_at_min
                           # self.readout_transform.flip_x),
                  physical_transform |-> pt.val])

Trimmed_into_physical_coordinates(h, self, allow_view) ==
    LET new_data == ImageSection_apply_transform(h, self.sect,
                        self.physical_transform, allow_view)
        rt == after(self.readout_transform, self.physical_transform)
        nb == ImageSection_bbox(new_data.val)
        pt == make_identity(nb.val)
        exc == FirstException(<<new_data.exc, rt.exc, nb.exc, pt.exc>>)
    IN  IF exc # "none" THEN ARaises(exc, new_data.heap)
        ELSE TrimmedAmplifier(new_data.heap, new_data.val,
                 [amplifier_id |-> self.amplifier_id,
                  readout_transform |-> rt.val,
                  horizontal_overscan_is_at_min |->
                      (self.horizontal_overscan_is_at_min
                           # self.physical_transform.flip_x),
                  vertical_overscan_is_at_min |->
                      (self.vertical_overscan_is_at_min
                           # self.physical_transform.flip_y),
                  horizontal_prescan_is_at_min |->
                      (self.horizontal_prescan_is_at_min
                           # self.physical_transform.flip_x),
                  physical_transform |-> pt.val])

\* The boundary properties of a TrimmedAmplifier; data.bbox may raise.
Trimmed_horizontal_overscan_boundary(self) ==
    LET b == ImageSection_bbox(self.sect)
    IN  IF b.exc # "none" THEN Raise(b.exc, 0)
        ELSE Ok(IF self.horizontal_overscan_is_at_min
                THEN b.val.min.x ELSE b.val.max.x)

Trimmed_vertical_overscan_boundary(self) ==
    LET b == ImageSection_bbox(self.sect)
    IN  IF b.exc # "none" THEN Raise(b.exc, 0)
        ELSE Ok(IF self.vertical_overscan_is_at_min
                THEN b.val.min.y ELSE b.val.max.y)

Trimmed_horizontal_prescan_boundary(self) ==
    LET b == ImageSection_bbox(self.sect)
    IN  IF b.exc # "none" THEN Raise(b.exc, 0)
        ELSE Ok(IF self.horizontal_prescan_is_at_min
                THEN b.val.min.x ELSE b.val.max.x)

Trimmed_with_new_data_image(h, self, image) ==
    LET new_data == with_new_image(h, self.sect, image)
    IN  IF new_data.exc # "none" THEN ARaises(new_data.exc, new_data.heap)
        ELSE TrimmedAmplifier(new_data.heap, new_data.val, TrimmedKw(self))

(* UntrimmedAmplifier *)

Untrimmed_copy(h, self) ==
    LET c == ImageSection_copy(h, self.sect)
    IN  IF c.exc # "none" THEN ARaises(c.exc, c.heap)
        ELSE UntrimmedAmplifier(c.heap, c.val, UntrimmedKw(self))

Untrimmed_without_images(h, self) ==
    IF ImageSection_image(self.sect).pytype = "NoneType"
    THEN AReturns(h, self)
    ELSE LET w == without_image(h, self.sect)
         IN  IF w.exc # "none" THEN ARaises(w.exc, w.heap)
             ELSE UntrimmedAmplifier(w.heap, w.val, UntrimmedKw(self))

\* UntrimmedAmplifier.data: self._full.subimage(self._data_bbox)
Untrimmed_data(h, self) == ImageSection_subimage(h, self.sect, self.data_bbox)

\* A plausible bug: the side is decided by the first test alone.
Untrimmed_horizontal_overscan_boundaryUnasserted(self) ==
    IF self.horizontal_overscan_bbox.max.x < self.data_bbox.min.x
    THEN Ok(self.data_bbox.min.x)
    ELSE Ok(self.data_bbox.max.x)

Untrimmed_horizontal_overscan_boundary(self) ==
    IF self.horizontal_overscan_bbox.max.x < self.data_bbox.min.x
    THEN Ok(self.data_bbox.min.x)
    ELSE IF ~(self.horizontal_overscan_bbox.min.x > self.data_bbox.max.x)
    THEN Raise("AssertionError", 0)
    ELSE Ok(self.data_bbox.max.x)

Untrimmed_vertical_overscan_boundary(self) ==
    IF self.vertical_overscan_bbox.max.y < self.data_bbox.min.y
    THEN Ok(self.data_bbox.min.y)
    ELSE IF ~(self.vertical_overscan_bbox.min.y > self.data_bbox.max.y)
    THEN Raise("AssertionError", 0)
    ELSE Ok(self.data_bbox.max.y)

Untrimmed_horizontal_prescan_boundary(self) ==
    IF self.horizontal_prescan_bbox.max.x < self.data_bbox.min.x
    THEN Ok(self.data_bbox.min.x)
    ELSE IF ~(self.horizontal_prescan_bbox.min.x > self.data_bbox.max.x)
    THEN Raise("AssertionError", 0)
    ELSE Ok(self.data_bbox.max.x)

\* UntrimmedAmplifier.trimmed_view: a TrimmedAmplifier over self.data.
Untrimmed_trimmed_view(h, self) ==
    LET data == Untrimmed_data(h, self)
        rt == for_subimage(self.readout_transform, self.data_bbox)
        hos == Untrimmed_horizontal_overscan_boundary(self)
        vos == Untrimmed_vertical_overscan_boundary(self)
        hps == Untrimmed_horizontal_prescan_boundary(self)
        pt == ImageSectionTransform(self.data_bbox, self.data_physical_bbox,
                                    self.raw_detector_transform.flip_x,
                                    self.raw_detector_transform.flip_y)
        exc == FirstException(<<data.exc, rt.exc, hos.exc, vos.exc, hps.exc,
                                pt.exc>>)
    IN  IF exc # "none" THEN ARaises(exc, h)
        ELSE TrimmedAmplifier(h, data.val,
                 [amplifier_id |-> self.amplifier_id,
                  readout_transform |-> rt.val,
                  horizontal_overscan_is_at_min |->
                      (hos.val = self.data_bbox.min.x),
                  vertical_overscan_is_at_min |->
                      (vos.val = self.data_bbox.min.y),
                  horizontal_prescan_is_at_min |->
                      (hps.val = self.data_bbox.min.x),
                  physical_transform |-> pt.val])

\* The transformed amplifier: every box is mapped by readout_transform, and
\* raw_detector_transform is composed after it.
Untrimmed_into_readout_coordinates(h, self, allow_view) ==
    LET t == self.readout_transform
        new_full == ImageSection_apply_transform(h, self.sect, t, allow_view)
        nb == ImageSection_bbox(new_full.val)
        rt == make_identity(nb.val)
        data == for_subimage(t, self.data_bbox)
        hos == for_subimage(t, self.horizontal_overscan_bbox)
        vos == for_subimage(t, self.vertical_overscan_bbox)
        hps == for_subimage(t, self.horizontal_prescan_bbox)
        raw == after(self.raw_detector_transform, t)
        exc == FirstException(<<new_full.exc, nb.exc, rt.exc, data.exc,
                                hos.exc, vos.exc, hps.exc, raw.exc>>)
    IN  IF exc # "none" THEN ARaises(exc, new_full.heap)
        ELSE UntrimmedAmplifier(new_full.heap, new_full.val,
                 [amplifier_id |-> self.amplifier_id,
                  readout_transform |-> rt.val,
                  data_bbox |-> data.val.output_bbox,
                  data_physical_bbox |-> self.data_physical_bbox,
                  horizontal_overscan_bbox |-> hos.val.output_bbox,
                  vertical_overscan_bbox |-> vos.val.output_bbox,
                  horizontal_prescan_bbox |-> hps.val.output_bbox,
                  raw_detector_transform |-> raw.val])

Untrimmed_into_raw_detector_coordinates(h, self, allow_view) ==
    LET t == self.raw_detector_transform
        new_full == ImageSection_apply_transform(h, self.sect, t, allow_view)
        rt == after(self.readout_transform, t)
        data == for_subimage(t, self.data_bbox)
        hos == for_subimage(t, self.horizontal_overscan_bbox)
        vos == for_subimage(t, self.vertical_overscan_bbox)
        hps == for_subimage(t, self.horizontal_prescan_bbox)
        nb == ImageSection_bbox(new_full.val)
        raw == make_identity(nb.val)
        exc == FirstException(<<new_full.exc, rt.exc, data.exc, hos.exc,
                                vos.exc, hps.exc, nb.exc, raw.exc>>)
    IN  IF exc # "none" THEN ARaises(exc, new_full.heap)
        ELSE UntrimmedAmplifier(new_full.heap, new_full.val,
                 [amplifier_id |-> self.amplifier_id,
                  readout_transform |-> rt.val,
                  data_bbox |-> data.val.output_bbox,
                  data_physical_bbox |-> self.data_physical_bbox,
                  horizontal_overscan_bbox |-> hos.val.output_bbox,
                  vertical_overscan_bbox |-> vos.val.output_bbox,
                  horizontal_prescan_bbox |-> hps.val.output_bbox,
                  raw_detector_transform |-> raw.val])

Untrimmed_with_new_full_image(h, self, image) ==
    LET new_full == with_new_image(h, self.sect, image)
    IN  IF new_full.exc # "none" THEN ARaises(new_full.exc, new_full.heap)
        ELSE UntrimmedAmplifier(new_full.heap, new_full.val, UntrimmedKw(self))

(* Amplifier: dispatch on the class *)

Amplifier_copy(h, self) ==
    IF self.cls = "TrimmedAmplifier"
    THEN Trimmed_copy(h, self) ELSE Untrimmed_copy(h, self)

Amplifier_without_images(h, self) ==
    IF self.cls = "TrimmedAmplifier"
    THEN Trimmed_without_images(h, self) ELSE Untrimmed_without_images(h, self)

Amplifier_data(h, self) ==
    IF self.cls = "TrimmedAmplifier"
    THEN Returns(h, self.sect) ELSE Untrimmed_data(h, self)

Amplifier_trimmed_view(h, self) ==
    IF self.cls = "TrimmedAmplifier"
    THEN AReturns(h, self) ELSE Untrimmed_trimmed_view(h, self)

Amplifier_into_readout_coordinates(h, self, allow_view) ==
    IF self.cls = "TrimmedAmplifier"
    THEN Trimmed_into_readout_coordinates(h, self, allow_view)
    ELSE Untrimmed_into_readout_coordinates(h, self, allow_view)

\* trimmed.into_physical_coordinates(allow_view=...), trimmed being the
\* outcome of a call that returns a TrimmedAmplifier.
ThenIntoPhysicalCoordinates(trimmed, allow_view) ==
    IF trimmed.exc # "none" THEN trimmed
    ELSE Trimmed_into_physical_coordinates(trimmed.heap, trimmed.val,
                                           allow_view)

\* untrimmed.trimmed_view, untrimmed being the outcome of a call that returns
\* an UntrimmedAmplifier.
ThenTrimmedView(untrimmed) ==
    IF untrimmed.exc # "none" THEN untrimmed
    ELSE Untrimmed_trimmed_view(untrimmed.heap, untrimmed.val)

Amplifier_horizontal_overscan_boundary(self) ==
    IF self.cls = "TrimmedAmplifier"
    THEN Trimmed_horizontal_overscan_boundary(self)
    ELSE Untrimmed_horizontal_overscan_boundary(self)

Amplifier_vertical_overscan_boundary(self) ==
    IF self.cls = "TrimmedAmplifier"
    THEN Trimmed_vertical_overscan_boundary(self)
    ELSE Untrimmed_vertical_overscan_boundary(self)

Amplifier_horizontal_prescan_boundary(self) ==
    IF self.cls = "TrimmedAmplifier"
    THEN Trimmed_horizontal_prescan_boundary(self)
    ELSE Untrimmed_horizontal_prescan_boundary(self)

-----------------------------------------------------------------------------
(* Amplifier sets.  One record shape serves the four classes: detector is  *)
(* the canvas of an assembled set; mapping holds the members in insertion  *)
(* order (a dict keyed by amplifier_id); is_complete is the attribute of   *)
(* an unassembled set; oid tells one set object from another.              *)

AmplifierSet(cls, detector, mapping, is_complete, observation_info, oid) ==
    [cls |-> cls, detector |-> detector, mapping |-> mapping,
     is_complete |-> is_complete, observation_info |-> observation_info,
     oid |-> oid]

NoSet == AmplifierSet("none", NoSection, <<>>, FALSE, "None", 0)

\* The outcome of a set call: the exception raised ("none" when it
\* returned), the set returned, and the pixel buffers afterwards.
ZReturns(h, s) == [exc |-> "none", val |-> s, heap |-> h]

ZRaises(e, h) == [exc |-> e, val |-> NoSet, heap |-> h]

\* The outcome of consuming an iterable of amplifiers: the exception that
\* ended it ("none" when it was exhausted) and the amplifiers it yielded.
LReturns(h, amps) == [exc |-> "none", val |-> amps, heap |-> h]

LRaises(e, h, amps) == [exc |-> e, val |-> amps, heap |-> h]

\* A plausible bug: the amplifiers are kept in a list.
MappingAppending(amplifiers) == amplifiers

\* {amp.amplifier_id: amp for amp in amplifiers}: a later amplifier with an
\* id already present replaces the value and keeps the earlier position.
Mapping(amplifiers) ==
    LET m[k \in 0..Len(amplifiers)] ==
            IF k = 0 THEN <<>>
            ELSE LET amp == amplifiers[k]
                     prev == m[k - 1]
                 IN  IF \E i \in 1..Len(prev) :
                            prev[i].amplifier_id = amp.amplifier_id
                     THEN [i \in 1..Len(prev) |->
                              IF prev[i].amplifier_id = amp.amplifier_id
                              THEN amp ELSE prev[i]]
                     ELSE Append(prev, amp)
    IN  m[Len(amplifiers)]

\* A generator expression (amp.method() for amp in ...), consumed in order:
\* after prev, the next call's outcome r; the first exception ends it.
Yielded(prev, r) ==
    IF prev.exc # "none" THEN prev
    ELSE IF r.exc # "none" THEN LRaises(r.exc, r.heap, prev.val)
    ELSE LReturns(r.heap, Append(prev.val, r.val))

\* (amp.copy() for amp in amplifiers)
CopyEach(h, amplifiers) ==
    LET acc[k \in 0..Len(amplifiers)] ==
            IF k = 0 THEN LReturns(h, <<>>)
            ELSE Yielded(acc[k - 1],
                         Amplifier_copy(acc[k - 1].heap, amplifiers[k]))
    IN  acc[Len(amplifiers)]

\* (amp.without_images() for amp in amplifiers)
WithoutImagesEach(h, amplifiers) ==
    LET acc[k \in 0..Len(amplifiers)] ==
            IF k = 0 THEN LReturns(h, <<>>)
            ELSE Yielded(acc[k - 1],
                         Amplifier_without_images(acc[k - 1].heap,
                                                  amplifiers[k]))
    IN  acc[Len(amplifiers)]

\* (amp.trimmed_view for amp in amplifiers)
TrimmedViewEach(h, amplifiers) ==
    LET acc[k \in 0..Len(amplifiers)] ==
            IF k = 0 THEN LReturns(h, <<>>)
            ELSE Yielded(acc[k - 1],
                         Amplifier_trimmed_view(acc[k - 1].heap, amplifiers[k]))
    IN  acc[Len(amplifiers)]

\* (amp.into_readout_coordinates(allow_view=allow_view) for amp in amplifiers)
IntoReadoutCoordinatesEach(h, amplifiers, allow_view) ==
    LET acc[k \in 0..Len(amplifiers)] ==
            IF k = 0 THEN LReturns(h, <<>>)
            ELSE Yielded(acc[k - 1],
                         Amplifier_into_readout_coordinates(
                             acc[k - 1].heap, amplifiers[k], allow_view))
    IN  acc[Len(amplifiers)]

\* TrimmedAmplifierSet.__init__ and UntrimmedAmplifierSet.__init__ on an
\* iterable: the dict is built of what it yields, and its exception is the
\* constructor's.
SetFrom(amps, cls, detector, is_complete, observation_info, oid) ==
    IF amps.exc # "none" THEN ZRaises(amps.exc, amps.heap)
    ELSE ZReturns(amps.heap,
             AmplifierSet(cls, detector, Mapping(amps.val), is_complete,
                          observation_info, oid))

\* Box2I.include(other): the smallest box holding both.
include(b, other) ==
    IF isEmpty(other) THEN b
    ELSE IF isEmpty(b) THEN other
    ELSE [min |-> PointI(IMin(b.min.x, other.min.x), IMin(b.min.y, other.min.y)),
          max |-> PointI(IMax(b.max.x, other.max.x), IMax(b.max.y, other.max.y))]

\* detector_bbox = Box2I(); for ...: detector_bbox.include(box)
IncludeAll(boxes) ==
    LET u[k \in 0..Len(boxes)] ==
            IF k = 0 THEN EmptyBox ELSE include(u[k - 1], boxes[k])
    IN  u[Len(boxes)]

\* A plausible bug: the last amplifier's data section serves as the canvas.
EmptyDetectorReusing(data, detector_bbox) == data

\* amp.data.make_empty(detector_bbox), data being the outcome of amp.data.
EmptyDetector(data, detector_bbox) ==
    IF data.exc # "none" THEN data
    ELSE ImageSection_make_empty(data.heap, data.val, detector_bbox)

\* detector.assign(new_amp.data); new_amplifiers.append(new_amp)
AssignedData(prev, detector, new_amp, data) ==
    IF data.exc # "none" THEN LRaises(data.exc, data.heap, prev.val)
    ELSE LET a == ImageSection_assign(data.heap, detector, data.val)
         IN  IF a.exc # "none" THEN LRaises(a.exc, a.heap, prev.val)
             ELSE LReturns(a.heap, Append(prev.val, new_amp))

\* One turn of the assembly loop, new_amp being the outcome of bringing the
\* amplifier into the target coordinates.
Assigned(prev, detector, new_amp) ==
    IF prev.exc # "none" THEN prev
    ELSE IF new_amp.exc # "none"
    THEN LRaises(new_amp.exc, new_amp.heap, prev.val)
    ELSE AssignedData(prev, detector, new_amp.val,
                      Amplifier_data(new_amp.heap, new_amp.val))

\* An identity for a set object that no set in use has.
NewOid(self) == self.oid + 1

\* __len__: len(self._mapping)
Set_len(self) == Len(self.mapping)

\* __iter__: iter(self._mapping.values())
Set_iter(self) == self.mapping

\* __getitem__: self._mapping[amplifier_id]
Set_getitem(self, amplifier_id) ==
    LET hits == {k \in 1..Len(self.mapping) :
                    self.mapping[k].amplifier_id = amplifier_id}
    IN  IF hits = {} THEN Raise("KeyError", NoAmplifier)
        ELSE Ok(self.mapping[CHOOSE k \in hits : \A i \in hits : i <= k])

\* is_complete: an attribute of the unassembled sets, True for the assembled.
Set_is_complete(self) ==
    IF self.cls \in {"AssembledTrimmedAmplifierSet",
                     "AssembledUntrimmedAmplifierSet"}
    THEN TRUE ELSE self.is_complete

(* TrimmedAmplifierSet *)

UnassembledTrimmedAmplifierSet(amplifiers, is_complete, observation_info, oid) ==
    AmplifierSet("UnassembledTrimmedAmplifierSet", NoSection,
                 Mapping(amplifiers), is_complete, observation_info, oid)

\* AssembledTrimmedAmplifierSet.from_views: no checking.
AssembledTrimmed_from_views(detector, amplifiers, observation_info, oid) ==
    AmplifierSet("AssembledTrimmedAmplifierSet", detector,
                 Mapping(amplifiers), FALSE, observation_info, oid)

\* amp.with_new_data_image(detector.subimage(amp.data.bbox).image), amp
\* being the outcome p of into_physical_coordinates(allow_view=True).
TrimmedRebound(prev, detector, p) ==
    IF prev.exc # "none" THEN prev
    ELSE IF p.exc # "none" THEN LRaises(p.exc, p.heap, prev.val)
    ELSE LET b == ImageSection_bbox(p.val.sect)
             sub == ImageSection_subimage(p.heap, detector, b.val)
         IN  IF b.exc # "none" THEN LRaises(b.exc, p.heap, prev.val)
             ELSE IF sub.exc # "none" THEN LRaises(sub.exc, p.heap, prev.val)
             ELSE Yielded(prev,
                      Trimmed_with_new_data_image(p.heap, p.val,
                          ImageSection_image(sub.val)))

\* AssembledTrimmedAmplifierSet.__init__: every amplifier is brought into
\* physical coordinates and given the subimage of detector at its data.bbox.
AssembledTrimmedAmplifierSet(h, detector, amplifiers, observation_info, oid) ==
    LET acc[k \in 0..Len(amplifiers)] ==
            IF k = 0 THEN LReturns(h, <<>>)
            ELSE TrimmedRebound(acc[k - 1], detector,
                     Trimmed_into_physical_coordinates(
                         acc[k - 1].heap, amplifiers[k], TRUE))
    IN  SetFrom(acc[Len(amplifiers)], "AssembledTrimmedAmplifierSet",
                detector, FALSE, observation_info, oid)

(* UnassembledTrimmedAmplifierSet *)

UnassembledTrimmed_copy(h, self) ==
    SetFrom(CopyEach(h, self.mapping), "UnassembledTrimmedAmplifierSet",
            NoSection, self.is_complete, self.observation_info, NewOid(self))

UnassembledTrimmed_without_images(h, self) ==
    SetFrom(WithoutImagesEach(h, self.mapping),
            "UnassembledTrimmedAmplifierSet", NoSection, self.is_complete,
            self.observation_info, NewOid(self))

UnassembledTrimmed_into_readout_coordinates(h, self, allow_view) ==
    IF allow_view /\ \A k \in 1..Len(self.mapping) :
                         is_identity(self.mapping[k].readout_transform)
    THEN ZReturns(h, self)
    ELSE SetFrom(IntoReadoutCoordinatesEach(h, self.mapping, allow_view),
                 "UnassembledTrimmedAmplifierSet", NoSection,
                 self.is_complete, self.observation_info, NewOid(self))

\* return AssembledTrimmedAmplifierSet(detector, new_amplifiers, ...)
TrimmedAssembled(self, detector, new_amplifiers) ==
    IF new_amplifiers.exc # "none"
    THEN ZRaises(new_amplifiers.exc, new_amplifiers.heap)
    ELSE AssembledTrimmedAmplifierSet(new_amplifiers.heap, detector,
             new_amplifiers.val, self.observation_info, NewOid(self))

\* The assembly loop over the members, detector being the outcome of
\* make_empty.
TrimmedAssembly(self, detector) ==
    IF detector.exc # "none" THEN ZRaises(detector.exc, detector.heap)
    ELSE TrimmedAssembled(self, detector.val,
             LET acc[k \in 0..Len(self.mapping)] ==
                     IF k = 0 THEN LReturns(detector.heap, <<>>)
                     ELSE Assigned(acc[k - 1], detector.val,
                              Trimmed_into_physical_coordinates(
                                  acc[k - 1].heap, self.mapping[k], TRUE))
             IN  acc[Len(self.mapping)])

UnassembledTrimmed_assemble_into_trimmed(h, self, allow_view) ==
    IF ~self.is_complete \/ Len(self.mapping) = 0
    THEN ZRaises("IncompleteAmplifierSetError", h)
    ELSE TrimmedAssembly(self,
             EmptyDetector(
                 Amplifier_data(h, self.mapping[Len(self.mapping)]),
                 IncludeAll([k \in 1..Len(self.mapping) |->
                     self.mapping[k].physical_transform.output_bbox])))

(* AssembledTrimmedAmplifierSet *)

\* A plausible bug: the constructor's observation_info keyword is left at
\* its default.
TrimmedOverDefaulted(self, d) ==
    IF d.exc # "none" THEN ZRaises(d.exc, d.heap)
    ELSE AssembledTrimmedAmplifierSet(d.heap, d.val, self.mapping,
             "None", NewOid(self))

\* AssembledTrimmedAmplifierSet(d, self, ...), d being the outcome of the
\* call that makes the new detector.
TrimmedOver(self, d) ==
    IF d.exc # "none" THEN ZRaises(d.exc, d.heap)
    ELSE AssembledTrimmedAmplifierSet(d.heap, d.val, self.mapping,
             self.observation_info, NewOid(self))

AssembledTrimmed_copy(h, self) ==
    TrimmedOver(self, ImageSection_copy(h, self.detector))

AssembledTrimmed_without_images(h, self) ==
    IF ImageSection_image(self.detector).pytype = "NoneType"
    THEN ZReturns(h, self)
    ELSE LET d == without_image(h, self.detector)
         IN  IF d.exc # "none" THEN ZRaises(d.exc, d.heap)
             ELSE SetFrom(WithoutImagesEach(d.heap, self.mapping),
                      "AssembledTrimmedAmplifierSet", d.val, FALSE,
                      self.observation_info, NewOid(self))

AssembledTrimmed_assemble_into_trimmed(h, self, allow_view) ==
    IF allow_view THEN ZReturns(h, self) ELSE AssembledTrimmed_copy(h, self)

\* detector is None: self.without_image(), a method the class does not have.
AssembledTrimmed_with_new_detector_image(h, self, detector) ==
    IF detector.pytype = "NoneType"
    THEN ZRaises("AttributeError", h)
    ELSE TrimmedOver(self, with_new_image(h, self.detector, detector))

(* UntrimmedAmplifierSet *)

UnassembledUntrimmedAmplifierSet(amplifiers, is_complete, observation_info, oid) ==
    AmplifierSet("UnassembledUntrimmedAmplifierSet", NoSection,
                 Mapping(amplifiers), is_complete, observation_info, oid)

\* AssembledUntrimmedAmplifierSet.from_views: no checking.
AssembledUntrimmed_from_views(detector, amplifiers, observation_info, oid) ==
    AmplifierSet("AssembledUntrimmedAmplifierSet", detector,
                 Mapping(amplifiers), FALSE, observation_info, oid)

\* amp.with_new_full_image(detector.subimage(amp.full.bbox).image), amp
\* being the outcome p of into_raw_detector_coordinates(allow_view=True).
UntrimmedRebound(prev, detector, p) ==
    IF prev.exc # "none" THEN prev
    ELSE IF p.exc # "none" THEN LRaises(p.exc, p.heap, prev.val)
    ELSE LET b == ImageSection_bbox(p.val.sect)
             sub == ImageSection_subimage(p.heap, detector, b.val)
         IN  IF b.exc # "none" THEN LRaises(b.exc, p.heap, prev.val)
             ELSE IF sub.exc # "none" THEN LRaises(sub.exc, p.heap, prev.val)
             ELSE Yielded(prev,
                      Untrimmed_with_new_full_image(p.heap, p.val,
                          ImageSection_image(sub.val)))

\* AssembledUntrimmedAmplifierSet.__init__: every amplifier is brought into
\* raw-detector coordinates and given the subimage of detector at its
\* full.bbox.
AssembledUntrimmedAmplifierSet(h, detector, amplifiers, observation_info, oid) ==
    LET acc[k \in 0..Len(amplifiers)] ==
            IF k = 0 THEN LReturns(h, <<>>)
            ELSE UntrimmedRebound(acc[k - 1], detector,
                     Untrimmed_into_raw_detector_coordinates(
                         acc[k - 1].heap, amplifiers[k], TRUE))
    IN  SetFrom(acc[Len(amplifiers)], "AssembledUntrimmedAmplifierSet",
                detector, FALSE, observation_info, oid)

\* A plausible bug: the view is complete when it has members.
UntrimmedSet_trimmed_viewRecomputed(h, self) ==
    SetFrom(TrimmedViewEach(h, self.mapping),
            "UnassembledTrimmedAmplifierSet", NoSection,
            Len(self.mapping) > 0, self.observation_info, NewOid(self))

\* UntrimmedAmplifierSet.trimmed_view, inherited by both untrimmed classes.
UntrimmedSet_trimmed_view(h, self) ==
    SetFrom(TrimmedViewEach(h, self.mapping),
            "UnassembledTrimmedAmplifierSet", NoSection,
            Set_is_complete(self), self.observation_info, NewOid(self))

\* self.trimmed_view.assemble_into_trimmed(allow_view=allow_view), tv being
\* the outcome of self.trimmed_view.
ViewAssembled(tv, allow_view) ==
    IF tv.exc # "none" THEN tv
    ELSE UnassembledTrimmed_assemble_into_trimmed(tv.heap, tv.val, allow_view)

\* UntrimmedAmplifierSet.assemble_into_trimmed, inherited by both untrimmed
\* classes.
UntrimmedSet_assemble_into_trimmed(h, self, allow_view) ==
    ViewAssembled(UntrimmedSet_trimmed_view(h, self), allow_view)

(* UnassembledUntrimmedAmplifierSet *)

UnassembledUntrimmed_copy(h, self) ==
    SetFrom(CopyEach(h, self.mapping), "UnassembledUntrimmedAmplifierSet",
            NoSection, self.is_complete, self.observation_info, NewOid(self))

UnassembledUntrimmed_without_images(h, self) ==
    SetFrom(WithoutImagesEach(h, self.mapping),
            "UnassembledUntrimmedAmplifierSet", NoSection, self.is_complete,
            self.observation_info, NewOid(self))

UnassembledUntrimmed_into_readout_coordinates(h, self, allow_view) ==
    IF allow_view /\ \A k \in 1..Len(self.mapping) :
                         is_identity(self.mapping[k].readout_transform)
    THEN ZReturns(h, self)
    ELSE SetFrom(IntoReadoutCoordinatesEach(h, self.mapping, allow_view),
                 "UnassembledUntrimmedAmplifierSet", NoSection,
                 self.is_complete, self.observation_info, NewOid(self))

\* return AssembledUntrimmedAmplifierSet(detector, new_amplifiers, ...)
UntrimmedAssembled(self, detector, new_amplifiers) ==
    IF new_amplifiers.exc # "none"
    THEN ZRaises(new_amplifiers.exc, new_amplifiers.heap)
    ELSE AssembledUntrimmedAmplifierSet(new_amplifiers.heap, detector,
             new_amplifiers.val, self.observation_info, NewOid(self))

\* The assembly loop over the members, detector being the outcome of
\* make_empty.
UntrimmedAssembly(self, detector) ==
    IF detector.exc # "none" THEN ZRaises(detector.exc, detector.heap)
    ELSE UntrimmedAssembled(self, detector.val,
             LET acc[k \in 0..Len(self.mapping)] ==
                     IF k = 0 THEN LReturns(detector.heap, <<>>)
                     ELSE Assigned(acc[k - 1], detector.val,
                              Untrimmed_into_raw_detector_coordinates(
                                  acc[k - 1].heap, self.mapping[k], TRUE))
             IN  acc[Len(self.mapping)])

UnassembledUntrimmed_assemble_into_untrimmed(h, self, allow_view) ==
    IF ~self.is_complete \/ Len(self.mapping) = 0
    THEN ZRaises("IncompleteAmplifierSetError", h)
    ELSE UntrimmedAssembly(self,
             EmptyDetector(
                 Amplifier_data(h, self.mapping[Len(self.mapping)]),
                 IncludeAll([k \in 1..Len(self.mapping) |->
                     self.mapping[k].raw_detector_transform.output_bbox])))

(* AssembledUntrimmedAmplifierSet *)

\* AssembledUntrimmedAmplifierSet(d, self, ...), d being the outcome of the
\* call that makes the new detector.
UntrimmedOver(self, d) ==
    IF d.exc # "none" THEN ZRaises(d.exc, d.heap)
    ELSE AssembledUntrimmedAmplifierSet(d.heap, d.val, self.mapping,
             self.observation_info, NewOid(self))

AssembledUntrimmed_copy(h, self) ==
    UntrimmedOver(self, ImageSection_copy(h, self.detector))

AssembledUntrimmed_without_images(h, self) ==
    IF ImageSection_image(self.detector).pytype = "NoneType"
    THEN ZReturns(h, self)
    ELSE LET d == without_image(h, self.detector)
         IN  IF d.exc # "none" THEN ZRaises(d.exc, d.heap)
             ELSE SetFrom(WithoutImagesEach(d.heap, self.mapping),
                      "AssembledUntrimmedAmplifierSet", d.val, FALSE,
                      self.observation_info, NewOid(self))

AssembledUntrimmed_assemble_into_untrimmed(h, self, allow_view) ==
    IF allow_view THEN ZReturns(h, self) ELSE AssembledUntrimmed_copy(h, self)

\* detector is None: self.without_image(), a method the class does not have.
AssembledUntrimmed_with_new_detector_image(h, self, detector) ==
    IF detector.pytype = "NoneType"
    THEN ZRaises("AttributeError", h)
    ELSE UntrimmedOver(self, with_new_image(h, self.detector, detector))

(* AmplifierSet: calls resolved by the class of self *)

Set_copy(h, self) ==
    CASE self.cls = "UnassembledTrimmedAmplifierSet" ->
             UnassembledTrimmed_copy(h, self)
      [] self.cls = "AssembledTrimmedAmplifierSet" ->
             AssembledTrimmed_copy(h, self)
      [] self.cls = "UnassembledUntrimmedAmplifierSet" ->
             UnassembledUntrimmed_copy(h, self)
      [] OTHER -> AssembledUntrimmed_copy(h, self)

Set_without_images(h, self) ==
    CASE self.cls = "UnassembledTrimmedAmplifierSet" ->
             UnassembledTrimmed_without_images(h, self)
      [] self.cls = "AssembledTrimmedAmplifierSet" ->
             AssembledTrimmed_without_images(h, self)
      [] self.cls = "UnassembledUntrimmedAmplifierSet" ->
             UnassembledUntrimmed_without_images(h, self)
      [] OTHER -> AssembledUntrimmed_without_images(h, self)

\* TrimmedAmplifierSet.trimmed_view returns self.
Set_trimmed_view(h, self) ==
    IF self.cls \in {"UnassembledTrimmedAmplifierSet",
                     "AssembledTrimmedAmplifierSet"}
    THEN ZReturns(h, self)
    ELSE UntrimmedSet_trimmed_view(h, self)

\* The assembled classes inherit AmplifierSet.into_readout_coordinates,
\* whose body raises NotImplementedError.
Set_into_readout_coordinates(h, self, allow_view) ==
    CASE self.cls = "UnassembledTrimmedAmplifierSet" ->
             UnassembledTrimmed_into_readout_coordinates(h, self, allow_view)
      [] self.cls = "UnassembledUntrimmedAmplifierSet" ->
             UnassembledUntrimmed_into_readout_coordinates(h, self, allow_view)
      [] OTHER -> ZRaises("NotImplementedError", h)

Set_assemble_into_trimmed(h, self, allow_view) ==
    CASE self.cls = "UnassembledTrimmedAmplifierSet" ->
             UnassembledTrimmed_assemble_into_trimmed(h, self, allow_view)
      [] self.cls = "AssembledTrimmedAmplifierSet" ->
             AssembledTrimmed_assemble_into_trimmed(h, self, allow_view)
      [] OTHER -> UntrimmedSet_assemble_into_trimmed(h, self, allow_view)

\* assemble_into_untrimmed, a method of the untrimmed classes.
Set_assemble_into_untrimmed(h, self, allow_view) ==
    IF self.cls = "UnassembledUntrimmedAmplifierSet"
    THEN UnassembledUntrimmed_assemble_into_untrimmed(h, self, allow_view)
    ELSE AssembledUntrimmed_assemble_into_untrimmed(h, self, allow_view)

\* with_new_detector_image, a method of the assembled classes.
Set_with_new_detector_image(h, self, detector) ==
    IF self.cls = "AssembledTrimmedAmplifierSet"
    THEN AssembledTrimmed_with_new_detector_image(h, self, detector)
    ELSE AssembledUntrimmed_with_new_detector_image(h, self, detector)

-----------------------------------------------------------------------------
(* Spec: a caller that performs one ImageSectionTransform operation on     *)
(* inputs of its choice, looks at the result and starts over.              *)

\* The variables of the callers that are not running keep these values.
TIdle ==
    /\ op = "idle"
    /\ ta = NoTransform
    /\ tb = NoTransform
    /\ tc = NoTransform
    /\ argbox = NoBox
    /\ res = Ok(NoTransform)
    /\ res2 = Ok(NoTransform)

SIdle ==
    /\ sec = NoSection
    /\ sop = "idle"
    /\ sargs = [transform |-> NoTransform, allow_view |-> FALSE, bbox |-> NoBox,
                other |-> NoSection, image |-> NonePayload]
    /\ sres = Ok(NoSection)

AIdle ==
    /\ amplifier = NoAmplifier
    /\ aop = "idle"
    /\ aallow = FALSE
    /\ ares = ARaises("none", <<>>)
    /\ abounds = <<Ok(0), Ok(0), Ok(0)>>
    /\ ares2 = ARaises("none", <<>>)

ZIdle ==
    /\ zself = NoSet
    /\ zop = "idle"
    /\ zallow = FALSE
    /\ zres = ZRaises("none", <<>>)
    /\ zn = 0
    /\ zids = <<>>
    /\ zimage = NonePayload

TInit ==
    /\ op = "idle"
    /\ ta = NoTransform
    /\ tb = NoTransform
    /\ tc = NoTransform
    /\ argbox = NoBox
    /\ res = Ok(NoTransform)
    /\ res2 = Ok(NoTransform)
    /\ heap = <<>>
    /\ heap0 = <<>>
    /\ sec = NoSection
    /\ sop = "idle"
    /\ sargs = [transform |-> NoTransform, allow_view |-> FALSE, bbox |-> NoBox,
                other |-> NoSection, image |-> NonePayload]
    /\ sres = Ok(NoSection)
    /\ ndarray_has_module = FALSE
    /\ AIdle
    /\ ZIdle

\* ImageSectionTransform(input_bbox, output_bbox, flip_x, flip_y) on any boxes.
Construct ==
    /\ op = "idle"
    /\ \E i \in Boxes, o \in Boxes, fx \in BOOLEAN, fy \in BOOLEAN :
        /\ ta' = [input_bbox |-> i, output_bbox |-> o, flip_x |-> fx, flip_y |-> fy]
        /\ res' = ImageSectionTransform(i, o, fx, fy)
    /\ op' = "construct"
    /\ UNCHANGED <<tb, tc, argbox, res2>>
    /\ UNCHANGED <<svars, avars, zvars>>

MakeIdentity ==
    /\ op = "idle"
    /\ \E b \in Boxes :
        /\ argbox' = b
        /\ res' = make_identity(b)
    /\ op' = "make_identity"
    /\ UNCHANGED <<ta, tb, tc, res2>>
    /\ UNCHANGED <<svars, avars, zvars>>

\* self.after(other) on any two transforms.
After ==
    /\ op = "idle"
    /\ \E self \in Transforms, other \in Transforms :
        /\ ta' = self
        /\ tb' = other
        /\ res' = after(self, other)
    /\ op' = "after"
    /\ UNCHANGED <<tc, argbox, res2>>
    /\ UNCHANGED <<svars, avars, zvars>>

\* a.after(b).after(c) and a.after(b.after(c)) on a chain c, b, a in which
\* each transform starts from the box the one before it ends with.
AfterChain ==
    /\ op = "idle"
    /\ \E a \in Transforms :
       \E b \in TransformsInto(a.input_bbox) :
       \E c \in TransformsInto(b.input_bbox) :
        /\ ta' = a
        /\ tb' = b
        /\ tc' = c
        /\ res' = afterResult(after(a, b), c)
        /\ res2' = LET bc == after(b, c)
                   IN  IF bc.exc # "none" THEN bc ELSE after(a, bc.val)
    /\ op' = "after_chain"
    /\ UNCHANGED argbox
    /\ UNCHANGED <<svars, avars, zvars>>

\* self.for_subimage(bbox) on any transform and any box.
ForSubimage ==
    /\ op = "idle"
    /\ \E self \in Transforms, bbox \in Boxes :
        /\ ta' = self
        /\ argbox' = bbox
        /\ res' = for_subimage(self, bbox)
    /\ op' = "for_subimage"
    /\ UNCHANGED <<tb, tc, res2>>
    /\ UNCHANGED <<svars, avars, zvars>>

TReturn ==
    /\ op # "idle"
    /\ op' = "idle"
    /\ ta' = NoTransform
    /\ tb' = NoTransform
    /\ tc' = NoTransform
    /\ argbox' = NoBox
    /\ res' = Ok(NoTransform)
    /\ res2' = Ok(NoTransform)
    /\ UNCHANGED <<svars, avars, zvars>>

TNext ==
    \/ Construct
    \/ MakeIdentity
    \/ After
    \/ AfterChain
    \/ ForSubimage
    \/ TReturn

Spec == TInit /\ [][TNext]_vars

-----------------------------------------------------------------------------
(* Properties of ImageSectionTransform, checked under Spec.                *)

\* C1: every ImageSectionTransform that a construction, make_identity, after
\* or for_subimage call returns has input_bbox and output_bbox of equal size,
\* and a construction or composition from boxes whose sizes differ raises
\* ValueError instead of returning a transform.
C1_EqualSizes ==
    /\ (op # "idle" /\ res.exc = "none") =>
           getSize(res.val.input_bbox) = getSize(res.val.output_bbox)
    /\ (op = "after_chain" /\ res2.exc = "none") =>
           getSize(res2.val.input_bbox) = getSize(res2.val.output_bbox)
    /\ (op = "construct" /\ getSize(ta.input_bbox) # getSize(ta.output_bbox)) =>
           res.exc = "ValueError"
    /\ (op = "after" /\ getSize(tb.input_bbox) # getSize(ta.output_bbox)) =>
           res.exc = "ValueError"

\* A composition of two existing transforms whose sizes differ has failed.
C1_Witness ==
    /\ op = "after"
    /\ getSize(tb.input_bbox) # getSize(ta.output_bbox)
    /\ res.exc = "ValueError"

\* C2: composition is associative on a chain of compatible transforms,
\* a.after(b).after(c) = a.after(b.after(c)), both defined, and
\* make_identity(box).after(t) = t whenever t.output_bbox = box.
C2_Composition ==
    /\ op = "after_chain" => (res.exc = "none" /\ res = res2)
    /\ (op = "after" /\ make_identity(tb.output_bbox) = Ok(ta)) => res = Ok(tb)

\* A chain of three translating transforms, two of them flipping x, composed.
C2_Witness ==
    /\ op = "after_chain"
    /\ ta.flip_x /\ tb.flip_x /\ ~tc.flip_x /\ tc.flip_y
    /\ ta.input_bbox # ta.output_bbox
    /\ tc.input_bbox # tb.input_bbox
    /\ res.exc = "none"
    /\ res.val.input_bbox = tc.input_bbox
    /\ res.val.output_bbox = ta.output_bbox

\* C3: for a box s contained in t.input_bbox, t.for_subimage(s).input_bbox = s,
\* and t.for_subimage(t.input_bbox) = t, boxes and flips alike.
C3_SubimageRoundTrip ==
    (op = "for_subimage" /\ contains(ta.input_bbox, argbox)) =>
        /\ res.exc = "none"
        /\ res.val.input_bbox = argbox
        /\ (argbox = ta.input_bbox => res.val = ta)

\* A flipping, translating transform restricted to its whole input box.
C3_Witness ==
    /\ op = "for_subimage"
    /\ argbox = ta.input_bbox
    /\ ta.flip_x /\ ta.flip_y
    /\ ta.input_bbox # ta.output_bbox
    /\ res = Ok(ta)

\* C4: for a box s contained in t.input_bbox, t.for_subimage(s) keeps t's flips;
\* its output_bbox has the size of s, lies within t.output_bbox, and on each
\* axis starts at the offset from t.output_bbox's minimum that s has from
\* t.input_bbox's minimum (axis not flipped) or from t.input_bbox's maximum
\* (axis flipped).
C4_SubimageGeometry ==
    (op = "for_subimage" /\ contains(ta.input_bbox, argbox)) =>
        /\ res.exc = "none"
        /\ res.val.flip_x = ta.flip_x
        /\ res.val.flip_y = ta.flip_y
        /\ getSize(res.val.output_bbox) = getSize(argbox)
        /\ contains(ta.output_bbox, res.val.output_bbox)
        /\ res.val.output_bbox.min.x - ta.output_bbox.min.x =
               (IF ta.flip_x THEN ta.input_bbox.max.x - argbox.max.x
                             ELSE argbox.min.x - ta.input_bbox.min.x)
        /\ res.val.output_bbox.min.y - ta.output_bbox.min.y =
               (IF ta.flip_y THEN ta.input_bbox.max.y - argbox.max.y
                             ELSE argbox.min.y - ta.input_bbox.min.y)

\* An x-flipped transform restricted to a box at the low-x edge of its input:
\* the restricted output sits at the high-x edge of the output.
C4_Witness ==
    /\ op = "for_subimage"
    /\ contains(ta.input_bbox, argbox)
    /\ ta.flip_x /\ ~ta.flip_y
    /\ argbox.min.x = ta.input_bbox.min.x
    /\ argbox.max.x < ta.input_bbox.max.x
    /\ res.exc = "none"
    /\ res.val.output_bbox.max.x = ta.output_bbox.max.x
    /\ res.val.output_bbox.min.x > ta.output_bbox.min.x

\* C5: a transform composed with itself, t.after(t), has flip_x = FALSE when
\* t.flip_x and flip_y = FALSE when t.flip_y, and its boxes are those of t
\* (so it is the identity when t does not translate).
C5_FlipTwice ==
    (op = "after" /\ ta = tb) =>
        /\ res.exc = "none"
        /\ (ta.flip_x => ~res.val.flip_x)
        /\ (ta.flip_y => ~res.val.flip_y)
        /\ res.val.input_bbox = ta.input_bbox
        /\ res.val.output_bbox = ta.output_bbox
        /\ (ta.input_bbox = ta.output_bbox => is_identity(res.val))

\* An x-flipping transform composed with itself.
C5_Witness ==
    /\ op = "after"
    /\ ta = tb
    /\ ta.flip_x /\ ~ta.flip_y
    /\ ta.input_bbox = ta.output_bbox
    /\ res.exc = "none"
    /\ ~res.val.flip_x

-----------------------------------------------------------------------------
(* SectionSpec: a caller that holds one ImageSection, self, constructed    *)
(* over pixels of its own, and performs one operation on it.               *)

Args(transform, allow_view, bbox, other, image) ==
    [transform |-> transform, allow_view |-> allow_view, bbox |-> bbox,
     other |-> other, image |-> image]

NoArgs == Args(NoTransform, FALSE, NoBox, NoSection, NonePayload)

\* The boxes a caller may pass: they may reach beyond self on either side.
CallerBoxes ==
    {Box2I(PointI(x0, y0), PointI(x1, y1)) :
        x0 \in (0 - MaxX - 1)..MaxX, x1 \in (0 - MaxX - 1)..MaxX,
        y0 \in (0 - MaxY - 1)..MaxY, y1 \in (0 - MaxY - 1)..MaxY}

\* A new array of the given shape holding distinct pixel values: k, 2k, ...
NewArray(h, w, ht, k) ==
    LET F(i, j) == k * (1 + i + w * j)
    IN  Allocate(h, w, ht, [p \in Grid(w, ht) |-> F(p[1], p[2])])

\* A new section of the given kind and box, over pixels of its own.
NewSection(h, kind, bbox, k) ==
    LET a == NewArray(h, getWidth(bbox), getHeight(bbox), k)
    IN  CASE kind = "box" -> Returns(h, BoxOnlyImageSection(bbox))
          [] kind = "numpy" ->
                Returns(a.heap, NumPyImageSection(a.arr, PosPoint(bbox.min)))
          [] OTHER ->
                Returns(a.heap, AfwImageSection(Payload("afw", a.arr, bbox.min)))

\* self: a BoxOnlyImageSection, an AfwImageSection, or a NumPyImageSection
\* whose array may be a reversed view (numpy allows negative strides).
SInit ==
    /\ \E kind \in {"box", "numpy", "afw"}, b \in Boxes,
          fx \in BOOLEAN, fy \in BOOLEAN :
        LET n == NewSection(<<>>, kind, b, 1)
        IN  /\ kind # "numpy" => (~fx /\ ~fy)
            /\ heap = n.heap
            /\ sec = IF kind = "numpy"
                     THEN NumPyImageSection(np_reverse(n.val.arr, fy, fx),
                                            n.val.pos)
                     ELSE n.val
    /\ heap0 = heap
    /\ sop = "idle"
    /\ sargs = NoArgs
    /\ sres = Ok(NoSection)
    /\ ndarray_has_module \in BOOLEAN
    /\ op = "idle"
    /\ ta = NoTransform
    /\ tb = NoTransform
    /\ tc = NoTransform
    /\ argbox = NoBox
    /\ res = Ok(NoTransform)
    /\ res2 = Ok(NoTransform)
    /\ AIdle
    /\ ZIdle

\* The call returned or raised: record the outcome.
Outcome(name, args, before, r) ==
    /\ sop' = name
    /\ sargs' = args
    /\ heap0' = before
    /\ heap' = r.heap
    /\ sres' = [exc |-> r.exc, val |-> r.val]
    /\ UNCHANGED <<sec, ndarray_has_module>>
    /\ UNCHANGED <<tvars, avars, zvars>>

SCopy ==
    /\ sop = "idle"
    /\ Outcome("copy", NoArgs, heap, ImageSection_copy(heap, sec))

SWithoutImage ==
    /\ sop = "idle"
    /\ Outcome("without_image", NoArgs, heap, without_image(heap, sec))

SMakeEmpty ==
    /\ sop = "idle"
    /\ \E b \in Boxes :
        Outcome("make_empty", Args(NoTransform, FALSE, b, NoSection, NonePayload),
                heap, ImageSection_make_empty(heap, sec, b))

SSubimage ==
    /\ sop = "idle"
    /\ \E b \in CallerBoxes :
        Outcome("subimage", Args(NoTransform, FALSE, b, NoSection, NonePayload),
                heap, ImageSection_subimage(heap, sec, b))

\* self.assign(other), other a section of the same kind with its own pixels.
SAssign ==
    /\ sop = "idle"
    /\ \E b \in CallerBoxes :
        LET o == NewSection(heap, sec.kind, b, 0 - 1)
        IN  Outcome("assign", Args(NoTransform, FALSE, b, o.val, NonePayload),
                    o.heap, ImageSection_assign(o.heap, sec, o.val))

SApplyTransform ==
    /\ sop = "idle"
    /\ \E t \in Transforms, allow_view \in BOOLEAN :
        Outcome("apply_transform", Args(t, allow_view, NoBox, NoSection, NonePayload),
                heap, ImageSection_apply_transform(heap, sec, t, allow_view))

\* self.with_new_image(image): None, an object of another class, an int, a new
\* ndarray of any shape, or a new lsst.afw.image object with any box.
SWithNewImage ==
    /\ sop = "idle"
    /\ \/ \E pytype \in {"NoneType", "object", "int"} :
            LET image == Payload(pytype, NoArray, PointI(0, 0))
            IN  Outcome("with_new_image",
                        Args(NoTransform, FALSE, NoBox, NoSection, image),
                        heap, with_new_image(heap, sec, image))
       \/ \E pytype \in {"ndarray", "afw"}, b \in Boxes :
            LET a == NewArray(heap, getWidth(b), getHeight(b), 0 - 1)
                image == Payload(pytype, a.arr,
                                 IF pytype = "afw" THEN b.min ELSE PointI(0, 0))
            IN  Outcome("with_new_image",
                        Args(NoTransform, FALSE, NoBox, NoSection, image),
                        a.heap, with_new_image(a.heap, sec, image))

SNext ==
    \/ SCopy
    \/ SWithoutImage
    \/ SMakeEmpty
    \/ SSubimage
    \/ SAssign
    \/ SApplyTransform
    \/ SWithNewImage

SectionSpec == SInit /\ [][SNext]_vars

-----------------------------------------------------------------------------
(* Properties of the ImageSection implementations, checked under           *)
(* SectionSpec.                                                            *)

WritePixel(h, a, i, j, v) ==
    [h EXCEPT ![a.buf].px[CellIndex(h, a, i, j)] = v]

\* Two arrays share storage: some write through a changes what b reads.
SharesStorage(h, a, b) ==
    \E i \in 0..(a.w - 1), j \in 0..(a.h - 1) :
        Pixels(WritePixel(h, a, i, j, ReadPixel(h, a, i, j) + 1), b) # Pixels(h, b)

PayloadKinds == {"numpy", "afw"}

C7_MakeEmpty ==
    sop = "make_empty" =>
        /\ sres.exc = "none"
        /\ sres.val.kind = sec.kind
        /\ ImageSection_bbox(sres.val) = Ok(sargs.bbox)
        /\ \A i \in 0..(sres.val.arr.w - 1), j \in 0..(sres.val.arr.h - 1) :
               ReadPixel(heap, sres.val.arr, i, j) = 0
        /\ ~SharesStorage(heap, sres.val.arr, sec.arr)

\* C8: for a box b contained in self.bbox, subimage(b) returns a section whose
\* bbox is b and whose pixels are the storage of self's pixels of b.
C8_SubimageView ==
    (/\ sop = "subimage"
     /\ ImageSection_bbox(sec).exc = "none"
     /\ contains(ImageSection_bbox(sec).val, sargs.bbox)) =>
        /\ sres.exc = "none"
        /\ sres.val.kind = sec.kind
        /\ ImageSection_bbox(sres.val) = Ok(sargs.bbox)
        /\ sec.kind \in PayloadKinds =>
               /\ sres.val.arr.w = getWidth(sargs.bbox)
               /\ sres.val.arr.h = getHeight(sargs.bbox)
               /\ \A i \in 0..(sres.val.arr.w - 1), j \in 0..(sres.val.arr.h - 1) :
                      CellIndex(heap, sres.val.arr, i, j) =
                          CellIndex(heap, sec.arr,
                              i + sargs.bbox.min.x - ImageSection_bbox(sec).val.min.x,
                              j + sargs.bbox.min.y - ImageSection_bbox(sec).val.min.y)
               /\ sres.val.arr.buf = sec.arr.buf

\* C9: subimage(b) with b not contained in self.bbox, and assign(other) with
\* other.bbox not contained in self.bbox, raise and leave every pixel as it was.
C9_OutOfBounds ==
    (/\ sop \in {"subimage", "assign"}
     /\ ImageSection_bbox(sec).exc = "none"
     /\ ~contains(ImageSection_bbox(sec).val, sargs.bbox)) =>
        /\ sres.exc # "none"
        /\ heap = heap0

\* C10: with_new_image(p) returns a box-only section for None, a section with
\* self's bbox wrapping p for an ndarray or afw image that agrees with
\* self.bbox, raises ValueError for one that disagrees, and raises TypeError
\* for a value of any other kind.
C10_WithNewImage ==
    (sop = "with_new_image" /\ ImageSection_bbox(sec).exc = "none") =>
        LET p == sargs.image
            b == ImageSection_bbox(sec).val
            agrees ==
                IF p.pytype = "afw"
                THEN Box2IFromExtent(p.xy0, ExtentI(p.arr.w, p.arr.h)) = b
                ELSE p.arr.w = getWidth(b) /\ p.arr.h = getHeight(b)
        IN  CASE p.pytype = "NoneType" ->
                    sres = Ok(BoxOnlyImageSection(b))
              [] p.pytype \in {"ndarray", "afw"} /\ agrees ->
                    /\ sres.exc = "none"
                    /\ sres.val.kind = (IF p.pytype = "afw" THEN "afw" ELSE "numpy")
                    /\ ImageSection_bbox(sres.val) = Ok(b)
                    /\ sres.val.arr = p.arr
              [] p.pytype \in {"ndarray", "afw"} /\ ~agrees ->
                    sres.exc = "ValueError"
              [] OTHER ->
                    sres.exc = "TypeError"

-----------------------------------------------------------------------------
(* AmpSpec: a caller that constructs one amplifier from arguments of its   *)
(* choice and, when the constructor accepted them, performs one operation  *)
(* on it.                                                                  *)

\* The box of the same size whose minimum is the origin.
AtOrigin(b) == Box2IFromExtent(PointI(0, 0), getSize(b))

\* The box moved by (dx, dy).
Shifted(b, dx, dy) ==
    [min |-> PointI(b.min.x + dx, b.min.y + dy),
     max |-> PointI(b.max.x + dx, b.max.y + dy)]

\* Transforms to readout coordinates a caller passes for a section with the
\* given box: in place or to the origin, with any flips.
Readouts(bbox) ==
    {[input_bbox |-> bbox, output_bbox |-> o, flip_x |-> fx, flip_y |-> fy] :
        o \in {bbox, AtOrigin(bbox)}, fx \in BOOLEAN, fy \in BOOLEAN}

\* Transforms to detector coordinates a caller passes for a section with the
\* given box: in place or to the origin, with or without a flip in x.
Placements(bbox) ==
    {[input_bbox |-> bbox, output_bbox |-> o, flip_x |-> fx, flip_y |-> FALSE] :
        o \in {bbox, AtOrigin(bbox)}, fx \in BOOLEAN}

\* A transform that starts with a different box.
Misplaced(bbox) ==
    [input_bbox |-> Shifted(bbox, 1, 0), output_bbox |-> Shifted(bbox, 1, 0),
     flip_x |-> FALSE, flip_y |-> FALSE]

\* Boxes a caller passes as a region of an amplifier with the given full and
\* data boxes, along x: the columns of full below the data, those above it,
\* the data box itself, and a column beyond full.
XRegions(full, data) ==
    {r \in {Box2I(PointI(full.min.x, data.min.y),
                  PointI(data.min.x - 1, data.max.y)),
            Box2I(PointI(data.max.x + 1, data.min.y),
                  PointI(full.max.x, data.max.y))} :
        contains(full, r) /\ ~contains(data, r)}
    \cup {data,
          Box2I(PointI(full.max.x + 1, data.min.y),
                PointI(full.max.x + 1, data.max.y))}

\* The same along y.
YRegions(full, data) ==
    {r \in {Box2I(PointI(data.min.x, full.min.y),
                  PointI(data.max.x, data.min.y - 1)),
            Box2I(PointI(data.min.x, data.max.y + 1),
                  PointI(data.max.x, full.max.y))} :
        contains(full, r) /\ ~contains(data, r)}
    \cup {data,
          Box2I(PointI(data.min.x, full.max.y + 1),
                PointI(data.max.x, full.max.y + 1))}

\* One of the regions that lies beside the data, within full if there is one.
Beside(regions, full, data) ==
    IF \E r \in regions : r # data /\ contains(full, r)
    THEN CHOOSE r \in regions : r # data /\ contains(full, r)
    ELSE CHOOSE r \in regions : r # data

\* Data boxes a caller passes: the boxes within full that touch one of its
\* corners, and one that is not within full.
DataBoxes(full) ==
    {d \in Boxes : contains(full, d) /\ (d.min = full.min \/ d.max = full.max)}
    \cup {Shifted(full, 1, 0)}

\* The region boxes a caller passes with a data box: each of the three is
\* varied over its regions while the other two lie beside the data.
Layouts(full) ==
    UNION {
        LET xs == XRegions(full, d)
            ys == YRegions(full, d)
            x0 == Beside(xs, full, d)
            y0 == Beside(ys, full, d)
        IN  {[data_bbox |-> d, horizontal_overscan_bbox |-> h,
              vertical_overscan_bbox |-> y0, horizontal_prescan_bbox |-> x0] :
                h \in xs}
            \cup
            {[data_bbox |-> d, horizontal_overscan_bbox |-> x0,
              vertical_overscan_bbox |-> v, horizontal_prescan_bbox |-> x0] :
                v \in ys}
            \cup
            {[data_bbox |-> d, horizontal_overscan_bbox |-> x0,
              vertical_overscan_bbox |-> y0, horizontal_prescan_bbox |-> p] :
                p \in xs}
        : d \in DataBoxes(full)}

AInit ==
    /\ TIdle
    /\ SIdle
    /\ AIdle
    /\ ZIdle
    /\ heap = <<>>
    /\ heap0 = <<>>
    /\ ndarray_has_module = FALSE

\* TrimmedAmplifier(data, amplifier_id=..., ...), data a new section.
ConstructTrimmed ==
    /\ aop = "idle"
    /\ \E kind \in {"box", "numpy", "afw"}, b \in Boxes, at_min \in BOOLEAN :
       \E rt \in Readouts(b) \cup {Misplaced(b)},
          pt \in Placements(b) \cup {Misplaced(b)} :
        LET data == NewSection(<<>>, kind, b, 1)
            kw == [amplifier_id |-> 1,
                   readout_transform |-> rt,
                   horizontal_overscan_is_at_min |-> at_min,
                   vertical_overscan_is_at_min |-> at_min,
                   horizontal_prescan_is_at_min |-> ~at_min,
                   physical_transform |-> pt]
            r == TrimmedAmplifier(data.heap, data.val, kw)
        IN  /\ amplifier' = [NoAmplifier EXCEPT
                          !.cls = "TrimmedAmplifier",
                          !.sect = data.val,
                          !.amplifier_id = kw.amplifier_id,
                          !.readout_transform = rt,
                          !.horizontal_overscan_is_at_min = at_min,
                          !.vertical_overscan_is_at_min = at_min,
                          !.horizontal_prescan_is_at_min = ~at_min,
                          !.physical_transform = pt]
            /\ ares' = r
            /\ heap' = r.heap
            /\ heap0' = r.heap
    /\ aop' = "TrimmedAmplifier"
    /\ UNCHANGED <<tvars, sec, sop, sargs, sres, ndarray_has_module,
                   aallow, abounds, ares2, zvars>>

\* UntrimmedAmplifier(full, amplifier_id=..., ...), full a new section.
ConstructUntrimmed ==
    /\ aop = "idle"
    /\ \E kind \in {"box", "numpy", "afw"}, b \in Boxes :
       \E rt \in Readouts(b) \cup {Misplaced(b)},
          raw \in Placements(b) \cup {Misplaced(b)},
          layout \in Layouts(b) :
        LET full == NewSection(<<>>, kind, b, 1)
            d == layout.data_bbox
            hos == layout.horizontal_overscan_bbox
            vos == layout.vertical_overscan_bbox
            hps == layout.horizontal_prescan_bbox
            kw == [amplifier_id |-> 1,
                   readout_transform |-> rt,
                   data_bbox |-> d,
                   data_physical_bbox |-> AtOrigin(d),
                   horizontal_overscan_bbox |-> hos,
                   vertical_overscan_bbox |-> vos,
                   horizontal_prescan_bbox |-> hps,
                   raw_detector_transform |-> raw]
            r == UntrimmedAmplifier(full.heap, full.val, kw)
        IN  /\ amplifier' = [NoAmplifier EXCEPT
                          !.cls = "UntrimmedAmplifier",
                          !.sect = full.val,
                          !.amplifier_id = kw.amplifier_id,
                          !.readout_transform = rt,
                          !.data_bbox = d,
                          !.data_physical_bbox = kw.data_physical_bbox,
                          !.horizontal_overscan_bbox = hos,
                          !.vertical_overscan_bbox = vos,
                          !.horizontal_prescan_bbox = hps,
                          !.raw_detector_transform = raw]
            /\ ares' = r
            /\ heap' = r.heap
            /\ heap0' = r.heap
    /\ aop' = "UntrimmedAmplifier"
    /\ UNCHANGED <<tvars, sec, sop, sargs, sres, ndarray_has_module,
                   aallow, abounds, ares2, zvars>>

\* Whether the caller holds an amplifier: the constructor returned one.
Constructed ==
    /\ aop \in {"TrimmedAmplifier", "UntrimmedAmplifier"}
    /\ ares.exc = "none"

\* amplifier.into_readout_coordinates(allow_view=...)
AIntoReadoutCoordinates ==
    /\ Constructed
    /\ \E allow_view \in BOOLEAN :
        /\ aallow' = allow_view
        /\ ares' = Amplifier_into_readout_coordinates(heap, amplifier, allow_view)
    /\ heap' = ares'.heap
    /\ aop' = "into_readout_coordinates"
    /\ UNCHANGED <<tvars, heap0, sec, sop, sargs, sres, ndarray_has_module,
                   amplifier, abounds, ares2, zvars>>

\* amplifier.into_physical_coordinates(allow_view=...), on a TrimmedAmplifier
AIntoPhysicalCoordinates ==
    /\ Constructed
    /\ amplifier.cls = "TrimmedAmplifier"
    /\ \E allow_view \in BOOLEAN :
        /\ aallow' = allow_view
        /\ ares' = Trimmed_into_physical_coordinates(heap, amplifier, allow_view)
    /\ heap' = ares'.heap
    /\ aop' = "into_physical_coordinates"
    /\ UNCHANGED <<tvars, heap0, sec, sop, sargs, sres, ndarray_has_module,
                   amplifier, abounds, ares2, zvars>>

\* amplifier.into_raw_detector_coordinates(allow_view=...), on an
\* UntrimmedAmplifier
AIntoRawDetectorCoordinates ==
    /\ Constructed
    /\ amplifier.cls = "UntrimmedAmplifier"
    /\ \E allow_view \in BOOLEAN :
        /\ aallow' = allow_view
        /\ ares' = Untrimmed_into_raw_detector_coordinates(heap, amplifier,
                                                           allow_view)
    /\ heap' = ares'.heap
    /\ aop' = "into_raw_detector_coordinates"
    /\ UNCHANGED <<tvars, heap0, sec, sop, sargs, sres, ndarray_has_module,
                   amplifier, abounds, ares2, zvars>>

\* amplifier.trimmed_view
ATrimmedView ==
    /\ Constructed
    /\ ares' = Amplifier_trimmed_view(heap, amplifier)
    /\ heap' = ares'.heap
    /\ aop' = "trimmed_view"
    /\ UNCHANGED <<tvars, heap0, sec, sop, sargs, sres, ndarray_has_module,
                   amplifier, aallow, abounds, ares2, zvars>>

\* amplifier.into_raw_detector_coordinates().trimmed_view
\* .into_physical_coordinates(), and then
\* amplifier.trimmed_view.into_physical_coordinates(), on an
\* UntrimmedAmplifier; the conversions are given the same allow_view.
ATrimBothWays ==
    /\ Constructed
    /\ amplifier.cls = "UntrimmedAmplifier"
    /\ \E allow_view \in BOOLEAN :
        /\ aallow' = allow_view
        /\ ares' = ThenIntoPhysicalCoordinates(
                       ThenTrimmedView(
                           Untrimmed_into_raw_detector_coordinates(
                               heap, amplifier, allow_view)),
                       allow_view)
        /\ ares2' = ThenIntoPhysicalCoordinates(
                        Untrimmed_trimmed_view(ares'.heap, amplifier),
                        allow_view)
    /\ heap' = ares2'.heap
    /\ aop' = "trim_both_ways"
    /\ UNCHANGED <<tvars, heap0, sec, sop, sargs, sres, ndarray_has_module,
                   amplifier, abounds, zvars>>

\* amplifier.horizontal_overscan_boundary, amplifier.vertical_overscan_boundary and
\* amplifier.horizontal_prescan_boundary
ABoundaries ==
    /\ Constructed
    /\ abounds' = <<Amplifier_horizontal_overscan_boundary(amplifier),
                    Amplifier_vertical_overscan_boundary(amplifier),
                    Amplifier_horizontal_prescan_boundary(amplifier)>>
    /\ aop' = "boundaries"
    /\ UNCHANGED <<tvars, svars, amplifier, aallow, ares, ares2, zvars>>

ANext ==
    \/ ConstructTrimmed
    \/ ConstructUntrimmed
    \/ AIntoReadoutCoordinates
    \/ AIntoPhysicalCoordinates
    \/ AIntoRawDetectorCoordinates
    \/ ATrimmedView
    \/ ATrimBothWays
    \/ ABoundaries

AmpSpec == AInit /\ [][ANext]_vars

-----------------------------------------------------------------------------
(* Properties of the amplifiers, checked under AmpSpec.                    *)

\* C11: into_readout_coordinates, on a TrimmedAmplifier or an
\* UntrimmedAmplifier with any readout_transform and either allow_view,
\* returns an amplifier with the same amplifier_id whose readout_transform
\* is the identity.
C11_IntoReadoutCoordinates ==
    aop = "into_readout_coordinates" =>
        /\ ares.exc = "none"
        /\ ares.val.cls = amplifier.cls
        /\ ares.val.amplifier_id = amplifier.amplifier_id
        /\ is_identity(ares.val.readout_transform)

\* C12: on an UntrimmedAmplifier each boundary property returns the data
\* box's minimum coordinate when its region lies entirely below the data box
\* on its axis, the maximum coordinate when it lies entirely above, and fails
\* an assertion otherwise; a value returned is an edge of the data box.
C12_OverscanBoundary ==
    LET Below(region_max, data_min) == region_max < data_min
        Above(region_min, data_max) == region_min > data_max
        AsClaimed(r, lo, hi, dmin, dmax) ==
            /\ Below(hi, dmin) => r = Ok(dmin)
            /\ Above(lo, dmax) => r = Ok(dmax)
            /\ (~Below(hi, dmin) /\ ~Above(lo, dmax)) =>
                   r.exc = "AssertionError"
            /\ r.exc = "none" => r.val \in {dmin, dmax}
    IN  (aop = "boundaries" /\ amplifier.cls = "UntrimmedAmplifier") =>
            /\ AsClaimed(abounds[1],
                   amplifier.horizontal_overscan_bbox.min.x,
                   amplifier.horizontal_overscan_bbox.max.x,
                   amplifier.data_bbox.min.x, amplifier.data_bbox.max.x)
            /\ AsClaimed(abounds[2],
                   amplifier.vertical_overscan_bbox.min.y,
                   amplifier.vertical_overscan_bbox.max.y,
                   amplifier.data_bbox.min.y, amplifier.data_bbox.max.y)
            /\ AsClaimed(abounds[3],
                   amplifier.horizontal_prescan_bbox.min.x,
                   amplifier.horizontal_prescan_bbox.max.x,
                   amplifier.data_bbox.min.x, amplifier.data_bbox.max.x)

\* C12 witness: the horizontal overscan lies above the data and is answered
\* with the data's maximum x, while the vertical overscan overlaps the data
\* and its property fails.
C12_Witness ==
    /\ aop = "boundaries"
    /\ amplifier.cls = "UntrimmedAmplifier"
    /\ amplifier.data_bbox.min.x < amplifier.data_bbox.max.x
    /\ amplifier.horizontal_overscan_bbox.min.x > amplifier.data_bbox.max.x
    /\ abounds[1] = Ok(amplifier.data_bbox.max.x)
    /\ amplifier.vertical_overscan_bbox = amplifier.data_bbox
    /\ abounds[2].exc = "AssertionError"

\* C13: the UntrimmedAmplifier constructor returns an amplifier exactly when
\* data_bbox and the three region boxes are contained in full.bbox and both
\* transforms start with full.bbox; otherwise construction fails.
C13_UntrimmedInvariant ==
    LET full == ImageSection_bbox(amplifier.sect)
        Invariant ==
            /\ full.exc = "none"
            /\ contains(full.val, amplifier.data_bbox)
            /\ contains(full.val, amplifier.horizontal_overscan_bbox)
            /\ contains(full.val, amplifier.vertical_overscan_bbox)
            /\ contains(full.val, amplifier.horizontal_prescan_bbox)
            /\ amplifier.readout_transform.input_bbox = full.val
            /\ amplifier.raw_detector_transform.input_bbox = full.val
    IN  aop = "UntrimmedAmplifier" => (ares.exc = "none" <=> Invariant)

-----------------------------------------------------------------------------
(* SetSpec: a caller that constructs an amplifier set from new amplifiers  *)
(* and then performs set operations, each on the set the one before        *)
(* returned.                                                               *)

\* The longest sequence of set operations the caller performs.
MaxOps == 2

\* The value the caller passes as observation_info.
ObservationInfo == "info"

\* The boxes of the first amplifier of a set: those of full height.
SetBoxes == {b \in Boxes : b.min.y = 0 /\ b.max.y = MaxY}

\* Readout transforms of the amplifiers of a set: none needed, or a flip in x
\* to the origin.
SetReadouts(bbox) ==
    {[input_bbox |-> bbox, output_bbox |-> bbox,
      flip_x |-> FALSE, flip_y |-> FALSE],
     [input_bbox |-> bbox, output_bbox |-> AtOrigin(bbox),
      flip_x |-> TRUE, flip_y |-> FALSE]}

\* Detector placements of a second amplifier beside or upon the first: in the
\* box to its right, or flipped within the same box.
Neighbours(bbox) ==
    {[input_bbox |-> Shifted(bbox, getWidth(bbox), 0),
      output_bbox |-> Shifted(bbox, getWidth(bbox), 0),
      flip_x |-> FALSE, flip_y |-> FALSE],
     [input_bbox |-> bbox, output_bbox |-> bbox,
      flip_x |-> TRUE, flip_y |-> FALSE]}

\* Data boxes of an untrimmed amplifier of a set: the columns of full from
\* its first up to some column.
SetDataBoxes(full) ==
    {Box2I(full.min, PointI(x, full.max.y)) : x \in full.min.x..full.max.x}

\* A new TrimmedAmplifier over pixels of its own.
NewTrimmed(h, kind, id, rt, pt) ==
    LET data == NewSection(h, kind, pt.input_bbox, id)
    IN  TrimmedAmplifier(data.heap, data.val,
            [amplifier_id |-> id,
             readout_transform |-> rt,
             horizontal_overscan_is_at_min |-> FALSE,
             vertical_overscan_is_at_min |-> FALSE,
             horizontal_prescan_is_at_min |-> TRUE,
             physical_transform |-> pt])

\* A new UntrimmedAmplifier over pixels of its own, its regions beside the
\* data and its data placed in the trimmed detector where raw places it.
NewUntrimmed(h, kind, id, rt, raw, d) ==
    LET b == raw.input_bbox
        full == NewSection(h, kind, b, id)
        x0 == Beside(XRegions(b, d), b, d)
        y0 == Beside(YRegions(b, d), b, d)
    IN  UntrimmedAmplifier(full.heap, full.val,
            [amplifier_id |-> id,
             readout_transform |-> rt,
             data_bbox |-> d,
             data_physical_bbox |-> for_subimage(raw, d).val.output_bbox,
             horizontal_overscan_bbox |-> x0,
             vertical_overscan_bbox |-> y0,
             horizontal_prescan_bbox |-> x0,
             raw_detector_transform |-> raw])

\* The amplifiers a caller makes a trimmed set of: none, one, or two.
TrimmedLists(kind) ==
    {LReturns(<<>>, <<>>)}
    \cup UNION {
        LET ones == {NewTrimmed(<<>>, kind, 1, rt, pt) :
                        rt \in SetReadouts(b), pt \in Placements(b)}
        IN  {LReturns(m1.heap, <<m1.val>>) : m1 \in ones}
            \cup UNION {
                {LET m2 == NewTrimmed(m1.heap, kind, 2,
                               make_identity(pt2.input_bbox).val, pt2)
                 IN  LReturns(m2.heap, <<m1.val, m2.val>>) :
                    pt2 \in Neighbours(b)}
                : m1 \in ones}
        : b \in SetBoxes}

\* Placements and data boxes of a second untrimmed amplifier: a neighbour
\* that is all data, or an amplifier upon the first, unflipped, whose data
\* is its first column.
UntrimmedNeighbours(bbox) ==
    {[raw |-> raw, d |-> raw.input_bbox] : raw \in Neighbours(bbox)}
    \cup {[raw |-> make_identity(bbox).val,
           d |-> Box2I(bbox.min, PointI(bbox.min.x, bbox.max.y))]}

\* The amplifiers a caller makes an untrimmed set of: none, one, or two.
UntrimmedLists(kind) ==
    {LReturns(<<>>, <<>>)}
    \cup UNION {
        LET ones == {NewUntrimmed(<<>>, kind, 1, rt, raw, d) :
                        rt \in SetReadouts(b), raw \in Placements(b),
                        d \in SetDataBoxes(b)}
        IN  {LReturns(m1.heap, <<m1.val>>) : m1 \in ones}
            \cup UNION {
                {LET m2 == NewUntrimmed(m1.heap, kind, 2,
                               make_identity(p.raw.input_bbox).val, p.raw,
                               p.d)
                 IN  LReturns(m2.heap, <<m1.val, m2.val>>) :
                    p \in UntrimmedNeighbours(b)}
                : m1 \in ones}
        : b \in SetBoxes}

\* The amplifier ids a caller gives to a list of amplifiers: two amplifiers
\* without pixels are also given their ids in descending order, and the
\* same id twice.
IdLists(kind, n) ==
    IF kind = "box" /\ n = 2
    THEN {<<1, 2>>, <<2, 1>>, <<1, 1>>}
    ELSE {[k \in 1..n |-> k]}

\* The lists of amplifiers made with those amplifier ids.
Relabelled(listed, kind) ==
    {LReturns(listed.heap,
              [k \in 1..Len(listed.val) |->
                  [listed.val[k] EXCEPT !.amplifier_id = ids[k]]])
        : ids \in IdLists(kind, Len(listed.val))}

\* The boxes of the detector a caller passes with amplifiers whose target
\* boxes have the given union: the union, one a column wider, and that one
\* two columns further on.
DetectorBoxes(union) ==
    IF isEmpty(union)
    THEN {Box2I(PointI(0, 0), PointI(MaxX, MaxY))}
    ELSE LET wider == Box2I(union.min, PointI(union.max.x + 1, union.max.y))
         IN  {union, wider, Shifted(wider, 2, 0)}

\* The implementations the caller uses.  Only NumPyImageSection depends on
\* whether ndarray instances expose __module__, so the other two are used
\* in one of the two environments.
Kinds == IF ndarray_has_module THEN {"numpy"} ELSE {"box", "numpy", "afw"}

ZInit ==
    /\ TIdle
    /\ SIdle
    /\ AIdle
    /\ ZIdle
    /\ heap = <<>>
    /\ heap0 = <<>>
    /\ ndarray_has_module \in BOOLEAN

\* What a constructor leaves: zself is the set as from_views would make it
\* of the arguments, zres the constructor's result.
Made(name, amplifiers, asked, r) ==
    /\ zop' = name
    /\ zids' = [k \in 1..Len(amplifiers) |-> amplifiers[k].amplifier_id]
    /\ zself' = asked
    /\ zres' = r
    /\ heap' = r.heap
    /\ heap0' = r.heap
    /\ zallow' = FALSE
    /\ zimage' = NonePayload
    /\ zn' = 0
    /\ UNCHANGED <<tvars, avars, sec, sop, sargs, sres, ndarray_has_module>>

\* UnassembledTrimmedAmplifierSet(amplifiers, is_complete, observation_info=...)
ConstructUnassembledTrimmed ==
    /\ zop = "idle"
    /\ \E kind \in Kinds, is_complete \in BOOLEAN :
       \E listed \in TrimmedLists(kind) :
       \E amps \in Relabelled(listed, kind) :
        LET s == UnassembledTrimmedAmplifierSet(amps.val, is_complete,
                                                ObservationInfo, 1)
        IN  Made("UnassembledTrimmedAmplifierSet", amps.val, s,
                 ZReturns(amps.heap, s))

\* UnassembledUntrimmedAmplifierSet(amplifiers, is_complete, observation_info=...)
ConstructUnassembledUntrimmed ==
    /\ zop = "idle"
    /\ \E kind \in Kinds, is_complete \in BOOLEAN :
       \E listed \in UntrimmedLists(kind) :
       \E amps \in Relabelled(listed, kind) :
        LET s == UnassembledUntrimmedAmplifierSet(amps.val, is_complete,
                                                  ObservationInfo, 1)
        IN  Made("UnassembledUntrimmedAmplifierSet", amps.val, s,
                 ZReturns(amps.heap, s))

\* AssembledTrimmedAmplifierSet(detector, amplifiers, observation_info=...),
\* detector a new section.
ConstructAssembledTrimmed ==
    /\ zop = "idle"
    /\ \E kind \in Kinds :
       \E listed \in TrimmedLists(kind) :
       \E amps \in Relabelled(listed, kind) :
       \E bbox \in DetectorBoxes(IncludeAll(
                       [k \in 1..Len(amps.val) |->
                           amps.val[k].physical_transform.output_bbox])) :
        LET detector == NewSection(amps.heap, kind, bbox, 10)
        IN  Made("AssembledTrimmedAmplifierSet", amps.val,
                 AssembledTrimmed_from_views(detector.val, amps.val,
                                             ObservationInfo, 1),
                 AssembledTrimmedAmplifierSet(detector.heap, detector.val,
                     amps.val, ObservationInfo, 1))

\* AssembledUntrimmedAmplifierSet(detector, amplifiers, observation_info=...),
\* detector a new section.
ConstructAssembledUntrimmed ==
    /\ zop = "idle"
    /\ \E kind \in Kinds :
       \E listed \in UntrimmedLists(kind) :
       \E amps \in Relabelled(listed, kind) :
       \E bbox \in DetectorBoxes(IncludeAll(
                       [k \in 1..Len(amps.val) |->
                           amps.val[k].raw_detector_transform.output_bbox])) :
        LET detector == NewSection(amps.heap, kind, bbox, 10)
        IN  Made("AssembledUntrimmedAmplifierSet", amps.val,
                 AssembledUntrimmed_from_views(detector.val, amps.val,
                                               ObservationInfo, 1),
                 AssembledUntrimmedAmplifierSet(detector.heap, detector.val,
                     amps.val, ObservationInfo, 1))

\* The amplifiers of a two-amplifier detector: each has a data region of 10 by
\* 20 pixels and no other pixels; amplifier 1 is placed at (0,0)-(9,19)
\* without a flip, amplifier 2 at (10,0)-(19,19) with a flip in x.  The
\* section of amplifier 2 lies either at the origin or where it is placed.
ExampleLists(kind) ==
    LET b1 == Box2I(PointI(0, 0), PointI(9, 19))
        b2 == Box2I(PointI(10, 0), PointI(19, 19))
        m1 == NewUntrimmed(<<>>, kind, 1, make_identity(b1).val,
                           make_identity(b1).val, b1)
    IN  {LET m2 == NewUntrimmed(m1.heap, kind, 2, make_identity(own).val,
                       [input_bbox |-> own, output_bbox |-> b2,
                        flip_x |-> TRUE, flip_y |-> FALSE],
                       own)
         IN  LReturns(m2.heap, <<m1.val, m2.val>>) : own \in {b1, b2}}

\* UnassembledUntrimmedAmplifierSet(amplifiers, True, observation_info=...)
\* for the two-amplifier detector.
ConstructExample ==
    /\ zop = "idle"
    /\ \E kind \in Kinds :
       \E amps \in ExampleLists(kind) :
        LET s == UnassembledUntrimmedAmplifierSet(amps.val, TRUE,
                                                  ObservationInfo, 1)
        IN  Made("UnassembledUntrimmedAmplifierSet", amps.val, s,
                 ZReturns(amps.heap, s))

\* Whether the caller holds a set to operate on: the last call returned one.
Held ==
    /\ zop # "idle"
    /\ zres.exc = "none"
    /\ zn < MaxOps

IsAssembled(s) ==
    s.cls \in {"AssembledTrimmedAmplifierSet", "AssembledUntrimmedAmplifierSet"}

IsUntrimmed(s) ==
    s.cls \in {"UnassembledUntrimmedAmplifierSet",
               "AssembledUntrimmedAmplifierSet"}

\* What a set operation leaves: zself is the set it was called on.
CalledWith(name, allow_view, image, r) ==
    /\ zop' = name
    /\ zimage' = image
    /\ zself' = zres.val
    /\ zallow' = allow_view
    /\ zres' = r
    /\ heap0' = heap
    /\ heap' = r.heap
    /\ zn' = zn + 1
    /\ zids' = zids
    /\ UNCHANGED <<tvars, avars, sec, sop, sargs, sres, ndarray_has_module>>

Called(name, allow_view, r) == CalledWith(name, allow_view, NonePayload, r)

\* set.copy()
ZCopy ==
    /\ Held
    /\ Called("copy", FALSE, Set_copy(heap, zres.val))

\* set.without_images()
ZWithoutImages ==
    /\ Held
    /\ Called("without_images", FALSE, Set_without_images(heap, zres.val))

\* set.trimmed_view
ZTrimmedView ==
    /\ Held
    /\ Called("trimmed_view", FALSE, Set_trimmed_view(heap, zres.val))

\* set.into_readout_coordinates(allow_view=...)
ZIntoReadoutCoordinates ==
    /\ Held
    /\ \E allow_view \in BOOLEAN :
        Called("into_readout_coordinates", allow_view,
               Set_into_readout_coordinates(heap, zres.val, allow_view))

\* set.assemble_into_trimmed(allow_view=...)
ZAssembleIntoTrimmed ==
    /\ Held
    /\ \E allow_view \in BOOLEAN :
        Called("assemble_into_trimmed", allow_view,
               Set_assemble_into_trimmed(heap, zres.val, allow_view))

\* set.assemble_into_untrimmed(allow_view=...), on the classes that have it
ZAssembleIntoUntrimmed ==
    /\ Held
    /\ IsUntrimmed(zres.val)
    /\ \E allow_view \in BOOLEAN :
        Called("assemble_into_untrimmed", allow_view,
               Set_assemble_into_untrimmed(heap, zres.val, allow_view))

\* set.with_new_detector_image(image), on the classes that have it: image is
\* None or the image of the set's own detector.
ZWithNewDetectorImage ==
    /\ Held
    /\ IsAssembled(zres.val)
    /\ \E image \in {NonePayload, ImageSection_image(zres.val.detector)} :
        CalledWith("with_new_detector_image", FALSE, image,
                   Set_with_new_detector_image(heap, zres.val, image))

ZNext ==
    \/ ConstructUnassembledTrimmed
    \/ ConstructUnassembledUntrimmed
    \/ ConstructAssembledTrimmed
    \/ ConstructAssembledUntrimmed
    \/ ConstructExample
    \/ ZCopy
    \/ ZWithoutImages
    \/ ZTrimmedView
    \/ ZIntoReadoutCoordinates
    \/ ZAssembleIntoTrimmed
    \/ ZAssembleIntoUntrimmed
    \/ ZWithNewDetectorImage

SetSpec == ZInit /\ [][ZNext]_vars

-----------------------------------------------------------------------------
(* Properties of SetSpec.                                                  *)

\* C14: assembling an unassembled set whose is_complete is false, or that
\* has no members, raises IncompleteAmplifierSetError and returns no set;
\* for assemble_into_trimmed on trimmed and on untrimmed sets and for
\* assemble_into_untrimmed.
C14_IncompleteSet ==
    (/\ zop \in {"assemble_into_trimmed", "assemble_into_untrimmed"}
     /\ ~IsAssembled(zself)
     /\ (~zself.is_complete \/ Len(zself.mapping) = 0))
    => (zres.exc = "IncompleteAmplifierSetError" /\ zres.val = NoSet)

\* C15: on a complete, non-empty unassembled set, assemble_into_trimmed
\* returns an assembled set whose detector bbox is the union of the
\* members' physical_transform.output_bbox (for an untrimmed member, that of
\* its trimmed view: data_physical_bbox), and assemble_into_untrimmed one
\* whose detector bbox is the union of the members'
\* raw_detector_transform.output_bbox.
C15_CanvasIsUnion ==
    LET target(amp) ==
            IF zop = "assemble_into_untrimmed"
            THEN amp.raw_detector_transform.output_bbox
            ELSE IF amp.cls = "UntrimmedAmplifier"
            THEN amp.data_physical_bbox
            ELSE amp.physical_transform.output_bbox
        union == IncludeAll([k \in 1..Len(zself.mapping) |->
                                target(zself.mapping[k])])
    IN  (/\ zop \in {"assemble_into_trimmed", "assemble_into_untrimmed"}
         /\ ~IsAssembled(zself)
         /\ zself.is_complete
         /\ Len(zself.mapping) > 0)
        => /\ zres.exc = "none"
           /\ IsAssembled(zres.val)
           /\ ImageSection_bbox(zres.val.detector) = Ok(union)

\* C16: in every assembled set returned by assembly or by an assembled-set
\* constructor, each member's data (trimmed) or full (untrimmed) section is
\* a view into the set's detector: its bbox lies within the detector's
\* bbox, its pixels are those of detector.subimage(bbox), and its
\* physical_transform (trimmed) or raw_detector_transform (untrimmed) is
\* the identity.
C16_MembersAreViews ==
    LET s == zres.val
        canvas == ImageSection_bbox(s.detector)
        IsView(amp) ==
            LET b == ImageSection_bbox(amp.sect)
                sub == ImageSection_subimage(heap, s.detector, b.val)
            IN  /\ b.exc = "none"
                /\ canvas.exc = "none"
                /\ contains(canvas.val, b.val)
                /\ sub.exc = "none"
                /\ amp.sect.kind \in PayloadKinds =>
                       /\ amp.sect.arr = sub.val.arr
                       /\ SharesStorage(heap, amp.sect.arr, s.detector.arr)
                /\ IF IsUntrimmed(s)
                   THEN is_identity(amp.raw_detector_transform)
                   ELSE is_identity(amp.physical_transform)
    IN  (/\ zop \in {"AssembledTrimmedAmplifierSet",
                     "AssembledUntrimmedAmplifierSet",
                     "assemble_into_trimmed", "assemble_into_untrimmed"}
         /\ zres.exc = "none")
        => \A k \in 1..Len(s.mapping) : IsView(s.mapping[k])

\* C17: for the complete untrimmed set of two amplifiers, ids 1 and 2, each
\* a 10 by 20 data region, amplifier 1 placed at (0,0)-(9,19) without a flip
\* and amplifier 2 at (10,0)-(19,19) with flip_x, assemble_into_untrimmed
\* returns a set whose detector has the box (0,0)-(19,19), and column 0 of
\* amplifier 2 as it was before the call is column 19 of the detector.
C17_Example ==
    LET b1 == Box2I(PointI(0, 0), PointI(9, 19))
        b2 == Box2I(PointI(10, 0), PointI(19, 19))
        IsExample(s) ==
            /\ s.cls = "UnassembledUntrimmedAmplifierSet"
            /\ s.is_complete
            /\ Len(s.mapping) = 2
            /\ \A k \in 1..2 :
                   /\ s.mapping[k].amplifier_id = k
                   /\ getSize(s.mapping[k].data_bbox) = ExtentI(10, 20)
            /\ s.mapping[1].raw_detector_transform.output_bbox = b1
            /\ ~s.mapping[1].raw_detector_transform.flip_x
            /\ s.mapping[2].raw_detector_transform.output_bbox = b2
            /\ s.mapping[2].raw_detector_transform.flip_x
        canvas == zres.val.detector
    IN  (zop = "assemble_into_untrimmed" /\ IsExample(zself))
        => /\ zres.exc = "none"
           /\ ImageSection_bbox(canvas) = Ok(Box2I(PointI(0, 0), PointI(19, 19)))
           /\ canvas.kind \in PayloadKinds =>
                  \A j \in 0..19 :
                      ReadPixel(heap, canvas.arr, 19, j)
                          = ReadPixel(heap0, zself.mapping[2].sect.arr, 0, j)

\* C18: when copy, without_images, trimmed_view or into_readout_coordinates
\* on an unassembled set returns, the returned set's is_complete is the value
\* the receiver was constructed with; and is_complete is true on every
\* assembled set a constructor or an operation returns.
C18_IsCompletePropagated ==
    (zop # "idle" /\ zres.exc = "none")
    => /\ (/\ zop \in {"copy", "without_images", "trimmed_view",
                      "into_readout_coordinates"}
           /\ ~IsAssembled(zself))
          => Set_is_complete(zres.val) = zself.is_complete
       /\ IsAssembled(zres.val) => Set_is_complete(zres.val)

\* trimmed_view returned a new set for an incomplete untrimmed set that has
\* members.
C18_Witness ==
    /\ zop = "trimmed_view"
    /\ zres.exc = "none"
    /\ zself.cls = "UnassembledUntrimmedAmplifierSet"
    /\ ~zself.is_complete
    /\ Len(zself.mapping) > 0
    /\ zres.val.oid # zself.oid
    /\ ~Set_is_complete(zres.val)

\* C19: the set a constructor returns, and the set returned by every
\* operation of a sequence of copy, without_images, trimmed_view,
\* into_readout_coordinates, assemble_into_trimmed, assemble_into_untrimmed
\* and with_new_detector_image calls that starts on it, has the
\* observation_info the constructor was given.
C19_ObservationInfoThreaded ==
    (zop # "idle" /\ zres.exc = "none")
    => /\ zres.val.observation_info = ObservationInfo
       /\ zn > 0 => zres.val.observation_info = zself.observation_info

\* The second operation of a sequence, a copy of an assembled trimmed set
\* that an assembly returned, returned a new set.
C19_Witness ==
    /\ zn = 2
    /\ zop = "copy"
    /\ zres.exc = "none"
    /\ zself.cls = "AssembledTrimmedAmplifierSet"
    /\ zres.val.oid # zself.oid
    /\ Len(zres.val.mapping) > 0
    /\ zres.val.observation_info = ObservationInfo

\* C20: trimmed_view on an assembled trimmed set returns the set itself;
\* assemble_into_trimmed on an assembled trimmed set and
\* assemble_into_untrimmed on an assembled untrimmed set return the set itself
\* when allow_view is true and, when it is false, a new set of the same class
\* whose detector has the same box and pixels and shares no storage with the
\* receiver's; into_readout_coordinates with allow_view on an unassembled set
\* whose members all have an identity readout_transform returns the set
\* itself.
C20_SelfOrCopy ==
    LET Itself == zres = ZReturns(heap0, zself)
        old == zself.detector
        new == zres.val.detector
        OwnCopy ==
            /\ zres.exc = "none"
            /\ zres.val.oid # zself.oid
            /\ zres.val.cls = zself.cls
            /\ new.kind = old.kind
            /\ ImageSection_bbox(new) = ImageSection_bbox(old)
            /\ new.kind \in PayloadKinds =>
                   /\ Pixels(heap, new.arr) = Pixels(heap0, old.arr)
                   /\ ~SharesStorage(heap, new.arr, old.arr)
    IN  /\ (zop = "trimmed_view" /\ zself.cls = "AssembledTrimmedAmplifierSet")
           => Itself
        /\ (\/ /\ zop = "assemble_into_trimmed"
                /\ zself.cls = "AssembledTrimmedAmplifierSet"
             \/ /\ zop = "assemble_into_untrimmed"
                /\ zself.cls = "AssembledUntrimmedAmplifierSet")
           => IF zallow THEN Itself ELSE OwnCopy
        /\ (/\ zop = "into_readout_coordinates"
            /\ ~IsAssembled(zself)
            /\ zallow
            /\ \A k \in 1..Len(zself.mapping) :
                   is_identity(zself.mapping[k].readout_transform))
           => Itself

\* C21: into_readout_coordinates, on a set of any of the four classes and for
\* either allow_view, returns a set of the same trim state with the same
\* amplifier ids in the same order, every member's readout_transform being
\* the identity.
C21_SetIntoReadoutCoordinates ==
    zop = "into_readout_coordinates"
    => /\ zres.exc = "none"
       /\ IsUntrimmed(zres.val) = IsUntrimmed(zself)
       /\ Len(zres.val.mapping) = Len(zself.mapping)
       /\ \A k \in 1..Len(zself.mapping) :
              /\ zres.val.mapping[k].amplifier_id = zself.mapping[k].amplifier_id
              /\ is_identity(zres.val.mapping[k].readout_transform)

\* C22: the set a constructor returns has as many members as there are
\* distinct amplifier ids among the amplifiers given, indexing it by a given
\* id returns a member with that id and by another id raises KeyError, and
\* iterating it visits the ids in the order of their first occurrence; the
\* set returned by copy, without_images, trimmed_view,
\* into_readout_coordinates, assemble_into_trimmed or assemble_into_untrimmed
\* has the receiver's ids in the receiver's iteration order.
C22_KeyedByAmplifierId ==
    LET given == {zids[k] : k \in 1..Len(zids)}
        first[k \in 0..Len(zids)] ==
            IF k = 0 THEN <<>>
            ELSE IF \E i \in 1..(k - 1) : zids[i] = zids[k]
                 THEN first[k - 1]
                 ELSE Append(first[k - 1], zids[k])
        ids(s) == [k \in 1..Set_len(s) |-> Set_iter(s)[k].amplifier_id]
    IN  (zop # "idle" /\ zres.exc = "none")
        => /\ zn = 0 =>
                /\ Set_len(zres.val) = Cardinality(given)
                /\ ids(zres.val) = first[Len(zids)]
                /\ \A id \in 0..3 :
                       IF id \in given
                       THEN /\ Set_getitem(zres.val, id).exc = "none"
                            /\ Set_getitem(zres.val, id).val.amplifier_id = id
                       ELSE Set_getitem(zres.val, id).exc = "KeyError"
           /\ zop \in {"copy", "without_images", "trimmed_view",
                       "into_readout_coordinates", "assemble_into_trimmed",
                       "assemble_into_untrimmed"}
              => ids(zres.val) = ids(zself)

\* An assembly returned a new set for a set made of two amplifiers given with
\* ids 2 and 1, in that order.
C22_Witness ==
    /\ zop = "assemble_into_trimmed"
    /\ zres.exc = "none"
    /\ zids = <<2, 1>>
    /\ zres.val.oid # zself.oid
    /\ Set_len(zres.val) = 2
    /\ Set_iter(zres.val)[1].amplifier_id = 2
    /\ Set_iter(zres.val)[2].amplifier_id = 1
    /\ Set_getitem(zres.val, 1).val = Set_iter(zres.val)[2]

\* C23: assemble_into_trimmed, assemble_into_untrimmed and
\* into_readout_coordinates, whether they return or raise, leave every pixel
\* buffer that existed before the call as it was, so the receiver and its
\* members read the same pixels afterwards; what the call writes is storage
\* it allocated.
C23_SourceUnchanged ==
    (zop \in {"assemble_into_trimmed", "assemble_into_untrimmed",
              "into_readout_coordinates"})
    => /\ Len(heap) >= Len(heap0)
       /\ \A b \in 1..Len(heap0) : heap[b] = heap0[b]
       /\ \A k \in 1..Len(zself.mapping) :
              zself.mapping[k].sect.kind \in PayloadKinds =>
                  Pixels(heap, zself.mapping[k].sect.arr)
                      = Pixels(heap0, zself.mapping[k].sect.arr)

\* An assembly of two amplifiers with pixels raised after it had allocated
\* its canvas and assigned the first amplifier to it.
C23_Witness ==
    /\ zop \in {"assemble_into_trimmed", "assemble_into_untrimmed"}
    /\ zres.exc # "none"
    /\ Len(zself.mapping) = 2
    /\ zself.mapping[1].sect.kind \in PayloadKinds
    /\ Len(heap) > Len(heap0)
    /\ \E b \in (Len(heap0) + 1)..Len(heap) :
           \E k \in DOMAIN heap[b].px : heap[b].px[k] # 0

\* C24: with_new_detector_image(None) on an assembled set returns what
\* without_images() returns: an assembled set of the same class with the
\* same detector box and the same members' geometry, without an image.
C24_NoneIsWithoutImages ==
    LET w == Set_without_images(heap0, zself)
    IN  (zop = "with_new_detector_image" /\ zimage.pytype = "NoneType")
        => /\ zres.exc = "none"
           /\ w.exc = "none"
           /\ zres.val.cls = zself.cls
           /\ zres.val.detector = w.val.detector
           /\ zres.val.mapping = w.val.mapping
           /\ ImageSection_bbox(zres.val.detector) = ImageSection_bbox(zself.detector)
           /\ ImageSection_image(zres.val.detector).pytype = "NoneType"

\* C25: on an amplifier a constructor returned, whose region boxes all lie
\* within its section, into_readout_coordinates, into_physical_coordinates
\* and into_raw_detector_coordinates return an amplifier whose section has
\* the output_bbox of the transform applied, whose readout transform and
\* physical or raw-detector transform both start at that box, and whose
\* transform that was not applied keeps its output_bbox; this also when the
\* transform applied translates.
C25_ConversionsKeepInvariant ==
    LET untrimmed == amplifier.cls = "UntrimmedAmplifier"
        full == ImageSection_bbox(amplifier.sect).val
        WellFormed ==
            untrimmed =>
                /\ contains(full, amplifier.data_bbox)
                /\ contains(full, amplifier.horizontal_overscan_bbox)
                /\ contains(full, amplifier.vertical_overscan_bbox)
                /\ contains(full, amplifier.horizontal_prescan_bbox)
        Detector(a) == IF untrimmed THEN a.raw_detector_transform
                                    ELSE a.physical_transform
        applied == IF aop = "into_readout_coordinates"
                   THEN amplifier.readout_transform
                   ELSE Detector(amplifier)
        new == ares.val
    IN  (/\ aop \in {"into_readout_coordinates", "into_physical_coordinates",
                     "into_raw_detector_coordinates"}
         /\ WellFormed)
        => /\ ares.exc = "none"
           /\ ImageSection_bbox(new.sect) = Ok(applied.output_bbox)
           /\ new.readout_transform.input_bbox = applied.output_bbox
           /\ Detector(new).input_bbox = applied.output_bbox
           /\ IF aop = "into_readout_coordinates"
              THEN Detector(new).output_bbox = Detector(amplifier).output_bbox
              ELSE new.readout_transform.output_bbox
                       = amplifier.readout_transform.output_bbox

\* C26: on a TrimmedAmplifier a constructor returned, into_readout_coordinates
\* and into_physical_coordinates return an amplifier each of whose boundary
\* properties (horizontal_overscan_boundary, vertical_overscan_boundary,
\* horizontal_prescan_boundary) is the minimum edge of the new data.bbox
\* exactly when it was the minimum edge of the old one and the transform
\* applied does not flip that axis, or it was the maximum edge and the
\* transform flips the axis, and the maximum edge otherwise.
C26_FlagsFollowFlips ==
    LET applied == IF aop = "into_readout_coordinates"
                   THEN amplifier.readout_transform
                   ELSE amplifier.physical_transform
        old == ImageSection_bbox(amplifier.sect).val
        new == ImageSection_bbox(ares.val.sect).val
        Follows(before, after_, lo0, hi0, lo1, hi1, flip) ==
            /\ before.exc = "none"
            /\ after_.exc = "none"
            /\ after_.val = IF (before.val = lo0) # flip THEN lo1 ELSE hi1
    IN  (/\ aop \in {"into_readout_coordinates", "into_physical_coordinates"}
         /\ amplifier.cls = "TrimmedAmplifier")
        => /\ ares.exc = "none"
           /\ Follows(Trimmed_horizontal_overscan_boundary(amplifier),
                      Trimmed_horizontal_overscan_boundary(ares.val),
                      old.min.x, old.max.x, new.min.x, new.max.x,
                      applied.flip_x)
           /\ Follows(Trimmed_vertical_overscan_boundary(amplifier),
                      Trimmed_vertical_overscan_boundary(ares.val),
                      old.min.y, old.max.y, new.min.y, new.max.y,
                      applied.flip_y)
           /\ Follows(Trimmed_horizontal_prescan_boundary(amplifier),
                      Trimmed_horizontal_prescan_boundary(ares.val),
                      old.min.x, old.max.x, new.min.x, new.max.x,
                      applied.flip_x)

\* C27: for an UntrimmedAmplifier a constructor returned, whose region boxes
\* lie beside its data box so that its boundary properties are defined,
\* trimmed_view is a TrimmedAmplifier with the same amplifier_id, whose data
\* is the view full.subimage(data_bbox), sharing its pixels, whose
\* readout_transform is readout_transform.for_subimage(data_bbox), whose
\* physical_transform goes from data_bbox to data_physical_bbox with the
\* flips of raw_detector_transform, and whose three boundary properties
\* return what the untrimmed amplifier's return.
C27_TrimmedView ==
    LET hos == Untrimmed_horizontal_overscan_boundary(amplifier)
        vos == Untrimmed_vertical_overscan_boundary(amplifier)
        hps == Untrimmed_horizontal_prescan_boundary(amplifier)
        sub == ImageSection_subimage(heap0, amplifier.sect, amplifier.data_bbox)
        view == ares.val
    IN  (/\ aop = "trimmed_view"
         /\ amplifier.cls = "UntrimmedAmplifier"
         /\ hos.exc = "none" /\ vos.exc = "none" /\ hps.exc = "none")
        => /\ ares.exc = "none"
           /\ view.cls = "TrimmedAmplifier"
           /\ view.amplifier_id = amplifier.amplifier_id
           /\ sub.exc = "none"
           /\ view.sect = sub.val
           /\ ImageSection_bbox(view.sect) = Ok(amplifier.data_bbox)
           /\ heap = heap0
           /\ view.sect.kind \in PayloadKinds =>
                  SharesStorage(heap, view.sect.arr, amplifier.sect.arr)
           /\ Ok(view.readout_transform)
                  = for_subimage(amplifier.readout_transform, amplifier.data_bbox)
           /\ view.physical_transform
                  = [input_bbox |-> amplifier.data_bbox,
                     output_bbox |-> amplifier.data_physical_bbox,
                     flip_x |-> amplifier.raw_detector_transform.flip_x,
                     flip_y |-> amplifier.raw_detector_transform.flip_y]
           /\ Trimmed_horizontal_overscan_boundary(view) = hos
           /\ Trimmed_vertical_overscan_boundary(view) = vos
           /\ Trimmed_horizontal_prescan_boundary(view) = hps

\* C28: for an UntrimmedAmplifier a constructor returned, whose region boxes
\* lie beside its data box, into_raw_detector_coordinates().trimmed_view
\* .into_physical_coordinates() and trimmed_view.into_physical_coordinates()
\* both return, and the two amplifiers have the same data.bbox, which is
\* data_physical_bbox, an identity physical_transform, readout transforms
\* with the same flips and output_bbox, and equal boundary properties.
C28_TrimmingCommutes ==
    LET one == ares.val
        two == ares2.val
    IN  (/\ aop = "trim_both_ways"
         /\ Untrimmed_horizontal_overscan_boundary(amplifier).exc = "none"
         /\ Untrimmed_vertical_overscan_boundary(amplifier).exc = "none"
         /\ Untrimmed_horizontal_prescan_boundary(amplifier).exc = "none")
        => /\ ares.exc = "none"
           /\ ares2.exc = "none"
           /\ ImageSection_bbox(one.sect) = Ok(amplifier.data_physical_bbox)
           /\ ImageSection_bbox(two.sect) = Ok(amplifier.data_physical_bbox)
           /\ is_identity(one.physical_transform)
           /\ is_identity(two.physical_transform)
           /\ one.readout_transform.flip_x = two.readout_transform.flip_x
           /\ one.readout_transform.flip_y = two.readout_transform.flip_y
           /\ one.readout_transform.output_bbox = two.readout_transform.output_bbox
           /\ Trimmed_horizontal_overscan_boundary(one)
                  = Trimmed_horizontal_overscan_boundary(two)
           /\ Trimmed_vertical_overscan_boundary(one)
                  = Trimmed_vertical_overscan_boundary(two)
           /\ Trimmed_horizontal_prescan_boundary(one)
                  = Trimmed_horizontal_prescan_boundary(two)

\* C29: when assemble_into_untrimmed on an unassembled set whose members'
\* target boxes do not overlap returns, every pixel of every member's full
\* section, overscan and prescan regions included, is found in the canvas
\* at the place raw_detector_transform maps it to.
C29_WholeRegionCopied ==
    LET canvas == zres.val.detector
        cbox == ImageSection_bbox(canvas).val
        target(k) == zself.mapping[k].raw_detector_transform
        Disjoint(a, b) ==
            \/ a.max.x < b.min.x \/ b.max.x < a.min.x
            \/ a.max.y < b.min.y \/ b.max.y < a.min.y
        Copied(k) ==
            LET src == zself.mapping[k].sect.arr
                t == target(k)
            IN  \A i \in 0..(src.w - 1), j \in 0..(src.h - 1) :
                    ReadPixel(heap, canvas.arr,
                        (t.output_bbox.min.x - cbox.min.x)
                            + (IF t.flip_x THEN src.w - 1 - i ELSE i),
                        (t.output_bbox.min.y - cbox.min.y)
                            + (IF t.flip_y THEN src.h - 1 - j ELSE j))
                    = ReadPixel(heap0, src, i, j)
    IN  (/\ zop = "assemble_into_untrimmed"
         /\ zself.cls = "UnassembledUntrimmedAmplifierSet"
         /\ zres.exc = "none"
         /\ canvas.kind \in PayloadKinds
         /\ \A k \in 1..Len(zself.mapping), m \in 1..Len(zself.mapping) :
                k # m => Disjoint(target(k).output_bbox, target(m).output_bbox))
        => \A k \in 1..Len(zself.mapping) : Copied(k)

\* C30: when an assembly of an unassembled set returns, every canvas pixel
\* that lies in the target boxes of two or more members holds the pixel of
\* the member that comes last among them in iteration order.
C30_LaterMemberWins ==
    LET canvas == zres.val.detector
        cbox == ImageSection_bbox(canvas).val
        target(k) ==
            IF zop = "assemble_into_trimmed"
            THEN zself.mapping[k].physical_transform
            ELSE zself.mapping[k].raw_detector_transform
        Covering(x, y) ==
            {k \in 1..Len(zself.mapping) :
                contains(target(k).output_bbox,
                         Box2I(PointI(x, y), PointI(x, y)))}
        Last(x, y) ==
            CHOOSE k \in Covering(x, y) : \A m \in Covering(x, y) : m <= k
        Source(k, x, y) ==
            LET src == zself.mapping[k].sect.arr
                t == target(k)
                i == x - t.output_bbox.min.x
                j == y - t.output_bbox.min.y
            IN  ReadPixel(heap0, src,
                    IF t.flip_x THEN src.w - 1 - i ELSE i,
                    IF t.flip_y THEN src.h - 1 - j ELSE j)
    IN  (/\ \/ /\ zop = "assemble_into_trimmed"
                  /\ zself.cls = "UnassembledTrimmedAmplifierSet"
               \/ /\ zop = "assemble_into_untrimmed"
                  /\ zself.cls = "UnassembledUntrimmedAmplifierSet"
         /\ zres.exc = "none"
         /\ canvas.kind \in PayloadKinds)
        => \A x \in cbox.min.x..cbox.max.x, y \in cbox.min.y..cbox.max.y :
               Cardinality(Covering(x, y)) >= 2
               => ReadPixel(heap, canvas.arr, x - cbox.min.x, y - cbox.min.y)
                  = Source(Last(x, y), x, y)

=============================================================================
